---- MODULE Spec2Model ----
(***************************************************************************)
(* A model of the collections and of the stores of the `storage` crate.    *)
(*                                                                         *)
(*   SpecCV  ConcurrentVec (src/collection/concurrent_vec.rs): a fixed     *)
(*           capacity vector whose push may be called concurrently; the    *)
(*           sign of the atomic `length` is the lock on the tail slot.     *)
(*   SpecSL  SkipList (src/collection/skip_list.rs): one block per node,   *)
(*           header followed by the node's links.                          *)
(*   SpecCL  ConcurrentVec::clone, called while other threads push.        *)
(*   SpecST  The stores (src/store): InlineBumpStore, StackBumpStore,      *)
(*           InlineSingleStore, and the provided methods of Store.         *)
(*   SpecSH  The stores that share one StackBumpBlock.                     *)
(*   SpecSD  A bump store whose blocks are given back, and the provided    *)
(*           shrink of a store that grants more than it is asked for.      *)
(*   SpecLL  LinkedList (src/collection/linked_list.rs): pushes and pops   *)
(*           at both ends of two lists.                                    *)
(*   SpecLA  LinkedList, with try_append and split_off between the lists.  *)
(*   SpecSV  StoreVec (src/collection/store_vec.rs): push and pop.         *)
(*   SpecNL  SkipList, the numbers of links insert gives to the nodes.     *)
(*                                                                         *)
(* Each specification leaves the variables of the others at their initial  *)
(* values.                                                                 *)
(***************************************************************************)
EXTENDS Integers, Sequences, FiniteSets, TLC

VARIABLES
    \* ConcurrentVec
    cvNewCapacity,  \* the `capacity` argument given to ConcurrentVec::with_store
    cvCapacity,     \* Inner::handle metadata: the number of slots of the block
    cvLength,       \* ConcurrentVec::length, the AtomicIsize
    cvSlots,        \* the block of memory behind Inner::handle, slot by slot
    pc,             \* where each thread is within push
    local,          \* push's local variable `length`, per thread
    done,           \* the number of push calls each thread has returned from
    results,        \* what each push call returned
    startedFull,    \* history: len() == capacity() when the current call began
    spun,           \* history: the current call began on a full vector and
                    \* yet took a spin_loop branch
    modified,       \* history: the current call changed cvLength or cvSlots
    clPc,           \* where the call to clone is
    clElements,     \* clone's `elements.len()`: the len() as_slice has seen
    clIndex,        \* the number of elements write_slice_cloned has cloned
    clCapacity,     \* the capacity of the clone
    clLength,       \* the `length` of the clone
    clSlots,        \* the block of memory of the clone, slot by slot
    \* SkipList
    slLength,       \* SkipList::length
    slHead,         \* SkipList::head
    slNodes,        \* the blocks of SkipList::storage, by handle
    slStatus,       \* "ok", or how the last call ended the program
    slOp,           \* history: the last call and its arguments
    slRet,          \* history: what the last call returned
    slRef,          \* history: the map the calls describe, key by key
    \* Stores
    stKind,         \* which store it is
    stBase,         \* the address of the block of memory
    stMemAlign,     \* the alignment of `T`, the type the block is laid out as
    stHandleMax,    \* the largest offset the handle type H holds
    stWatermark,    \* `watermark`, of the store or of the StackBumpBlock
    stParts,        \* the stores that refer to the block
    stMemory,       \* the bytes of the block
    stLive,         \* the blocks the user holds: handle, layout, store
    stOp,           \* history: the last call and the store it was made on
    stRet,          \* history: what the last call returned
    \* LinkedList
    llNodes,        \* the blocks of the stores of the lists, by handle
    llLists,        \* `length`, `head` and `tail` of each of the two lists
    llSharing,      \* whether the stores of the two lists are sharing
    llStatus,       \* "ok", or how the last call ended the program
    llCalls,        \* the number of calls made on the lists
    llOp,           \* history: the last call, its list and its index argument
    llRet,          \* history: what the last call returned
    llRef,          \* history: the sequence of elements each list stands for
    \* StoreVec
    svLength,       \* StoreVec::length
    svCapacity,     \* UniqueArray::handle metadata: the slots of the block
    svSlots,        \* the block of memory behind UniqueArray::handle
    svStatus,       \* "ok", or how the last call ended the program
    svOp,           \* history: the last call and its argument
    svRet,          \* history: what the last call returned
    svRef,          \* history: the stack of elements the calls describe
    \* SkipList, the numbers of links
    nlRand,         \* the u32 the last call of rand_u32 returned, bit by bit
    nlTarget,       \* `target_links` of the last insert, 0 before the first
    nlHeadLinks,    \* `number_links` of the head
    nlNewLinks,     \* `number_links` of the node the last insert created, if any
    nlLength,       \* SkipList::length
    nlStatus        \* "ok", or "panic" once a call has panicked

clVars == <<clPc, clElements, clIndex, clCapacity, clLength, clSlots>>

cvVars == <<cvNewCapacity, cvCapacity, cvLength, cvSlots, pc, local, done, results,
            startedFull, spun, modified, clVars>>

slVars == <<slLength, slHead, slNodes, slStatus, slOp, slRet, slRef>>

stVars == <<stKind, stBase, stMemAlign, stHandleMax, stWatermark, stParts, stMemory,
            stLive, stOp, stRet>>

llVars == <<llNodes, llLists, llSharing, llStatus, llCalls, llOp, llRet, llRef>>

svVars == <<svLength, svCapacity, svSlots, svStatus, svOp, svRet, svRef>>

nlVars == <<nlRand, nlTarget, nlHeadLinks, nlNewLinks, nlLength, nlStatus>>

vars == <<cvVars, slVars, stVars, llVars, svVars, nlVars>>

Abs(n) == IF n < 0 THEN -n ELSE n

\* ------------------------------------------------------------------------
\* SkipList
\* ------------------------------------------------------------------------

\* The keys and the numbers of links the calls are made with; the code draws
\* the number of links of a new node from 1..=MAX_NUMBER_LINKS.
MaxKey == 4
MaxLinks == 2

Keys == 1..MaxKey
Values == {"a", "b"}
LinkCounts == 1..MaxLinks

\* The handles of the store: the addresses the allocator can hand out, one per
\* key and one more for a head that grow moves.
Handles == 1..(MaxKey + 1)

\* The handle StoreDangling::dangling returns: the address of no block.
Dangling == 0

\* Option
None == <<"None">>
Some(v) == <<"Some", v>>
SomeKV(k, v) == <<"Some", k, v>>

\* How a call ends other than by returning: a panic (an index out of bounds),
\* or the resolution of a handle that designates no block, which is undefined.
Panicked == <<"Panic">>
Undefined == <<"UB">>

\* A block no node lives in.
FreeBlock == [live |-> FALSE, key |-> 0, value |-> "", number_links |-> 0, links |-> <<>>]

\* A handle that can be resolved: one of an allocated block.
IsValid(nodes, h) == h \in Handles /\ nodes[h].live

\* NodeHeader::links: the `number_links` handles that follow the header.
links(nodes, h) == SubSeq(nodes[h].links, 1, nodes[h].number_links)

Min(a, b) == IF a < b THEN a ELSE b

\* Mutant: the smaller of the two.
Smaller(a, b) == IF a < b THEN a ELSE b

\* cmp::max
Max(a, b) == IF a < b THEN b ELSE a

Least(S) == CHOOSE x \in S : \A y \in S : x <= y

\* The handles some link, or the head, holds.
Referenced(nodes, head) ==
    {head} \cup UNION {{nodes[h].links[i] : i \in DOMAIN nodes[h].links} : h \in Handles}

\* Store::allocate: the handles a new block may get. The allocator is free to
\* pick any free address; the free addresses no handle refers to are
\* interchangeable, so the least stands for them all, and an address that a
\* stale handle still refers to is a choice of its own.
AllocChoices(nodes, head) ==
    LET free == {h \in Handles : ~nodes[h].live}
        stale == free \cap Referenced(nodes, head)
        fresh == free \ stale
    IN  stale \cup (IF fresh = {} THEN {} ELSE {Least(fresh)})

\* NodeHeader::new: a block with the header and `number_links` dangling links.
NewNode(key, value, number_links) ==
    [live |-> TRUE, key |-> key, value |-> value, number_links |-> number_links,
     links |-> [i \in 1..number_links |-> Dangling]]

\* Mutant: the links the block is grown by are left dangling.
GrowDangling(nodes, handle, with, old_number_links, new_number_links, g) ==
    LET grown == [nodes[handle] EXCEPT
                    !.number_links = new_number_links,
                    !.links = [i \in 1..new_number_links |->
                                 IF i <= old_number_links THEN nodes[handle].links[i]
                                 ELSE Dangling]]
    IN  [x \in Handles |-> IF x = g THEN grown ELSE IF x = handle THEN FreeBlock ELSE nodes[x]]

\* Mutant: every link of the grown block is written, the old ones too.
GrowOverwriting(nodes, handle, with, old_number_links, new_number_links, g) ==
    LET grown == [nodes[handle] EXCEPT
                    !.number_links = new_number_links,
                    !.links = [i \in 1..new_number_links |-> with]]
    IN  [x \in Handles |-> IF x = g THEN grown ELSE IF x = handle THEN FreeBlock ELSE nodes[x]]

\* NodeHeader::grow: the block is grown, in place (g = handle) or by moving it
\* to g; the header and the first `old_number_links` links are kept, the new
\* links are written with `with`.
Grow(nodes, handle, with, old_number_links, new_number_links, g) ==
    LET grown == [nodes[handle] EXCEPT
                    !.number_links = new_number_links,
                    !.links = [i \in 1..new_number_links |->
                                 IF i <= old_number_links THEN nodes[handle].links[i] ELSE with]]
    IN  [x \in Handles |-> IF x = g THEN grown ELSE IF x = handle THEN FreeBlock ELSE nodes[x]]

\* More steps than a walk along distinct nodes can take.
Fuel == Cardinality(Handles) + 1

\* SkipList::insert, the inner loop: advance as far as possible in `level`
\* (base 0) from `node`. The result tells how the loop ended: "break" (with
\* the last node, if the walk met it), "found" (a node with an equal key),
\* "ub" (a handle that designates no block was resolved).
RECURSIVE InsertWalk(_, _, _, _, _)
InsertWalk(nodes, key, node, level, fuel) ==
    IF fuel = 0 THEN [kind |-> "hang", node |-> node, last |-> <<>>]
    ELSE IF level >= Len(links(nodes, node))
    THEN [kind |-> "break", node |-> node, last |-> <<>>]
    ELSE
        LET next == links(nodes, node)[level + 1] IN
        IF ~IsValid(nodes, next) THEN [kind |-> "ub", node |-> node, last |-> <<>>]
        ELSE IF key > nodes[next].key
        THEN IF nodes[next].number_links = 0
             THEN [kind |-> "break", node |-> node, last |-> <<next>>]
             ELSE InsertWalk(nodes, key, next, level, fuel - 1)
        ELSE IF key = nodes[next].key
        THEN [kind |-> "found", node |-> next, last |-> <<>>]
        ELSE [kind |-> "break", node |-> node, last |-> <<>>]

\* SkipList::insert, the loop over the levels, from `level` down to 0:
\* `handles[level]` records the node whose link at `level` precedes the new
\* node. `node.links_mut()[level]` panics when the node has no such link.
RECURSIVE InsertScan(_, _, _, _, _, _)
InsertScan(nodes, key, node, level, handles, last) ==
    IF level < 0 THEN [kind |-> "splice", at |-> node, handles |-> handles, last |-> last]
    ELSE
        LET w == InsertWalk(nodes, key, node, level, Fuel) IN
        IF w.kind # "break"
        THEN [kind |-> w.kind, at |-> w.node, handles |-> handles, last |-> last]
        ELSE IF level >= Len(links(nodes, w.node))
        THEN [kind |-> "panic", at |-> w.node, handles |-> handles, last |-> last]
        ELSE InsertScan(nodes, key, w.node, level - 1,
                        [handles EXCEPT ![level + 1] = <<w.node>>],
                        IF w.last # <<>> THEN w.last ELSE last)

\* Mutant: a key that replaces an equal one is counted once more.
ReplaceCounted(nodes, h, key, value) ==
    [status |-> "ok", ret |-> SomeKV(nodes[h].key, nodes[h].value),
     nodes |-> [nodes EXCEPT ![h].key = key, ![h].value = value],
     head |-> slHead, length |-> slLength + 1]

\* `mem::replace(&mut node.key, key)`, `mem::replace(&mut node.value, value)`
Replace(nodes, h, key, value) ==
    [status |-> "ok", ret |-> SomeKV(nodes[h].key, nodes[h].value),
     nodes |-> [nodes EXCEPT ![h].key = key, ![h].value = value],
     head |-> slHead, length |-> slLength]

\* The call ends without returning, the list as it was.
Abort(status, ret) ==
    [status |-> status, ret |-> ret, nodes |-> slNodes, head |-> slHead, length |-> slLength]

\* Mutant: the new node is linked to the last node and keeps its own key and
\* value.
ExchangeLinksOnly(nodes, h, last, target_links) ==
    [nodes EXCEPT ![h].links = [i \in 1..target_links |-> last]]

\* "Exchange with last, if it goes beyond last": the new node, in the block h,
\* and the last node trade key and value, and every link of the new node is
\* set to the last node.
ExchangeWithLast(nodes, h, last, target_links) ==
    [nodes EXCEPT ![last].key = nodes[h].key,
                  ![last].value = nodes[h].value,
                  ![h].key = nodes[last].key,
                  ![h].value = nodes[last].value,
                  ![h].links = [i \in 1..target_links |-> last]]

\* SkipList::insert, once the scan is over: the new node, in the block h, is
\* spliced in at each level it takes part in, trades key and value with the
\* last node if it goes beyond it, and the head is grown (to the block g) if
\* the new node has more links.
Splice(key, value, target_links, head_links, scan, h, g) ==
    LET spliced == Min(head_links, target_links)
        prev(i) == scan.handles[i]
        created == [NewNode(key, value, target_links) EXCEPT
                      !.links = [i \in 1..target_links |->
                                   IF i <= spliced /\ prev(i) # <<>>
                                   THEN slNodes[prev(i)[1]].links[i]
                                   ELSE Dangling]]
        n1 == [x \in Handles |->
                 IF x = h THEN created
                 ELSE [slNodes[x] EXCEPT
                         !.links = [i \in DOMAIN slNodes[x].links |->
                                      IF i <= spliced /\ prev(i) = <<x>>
                                      THEN h
                                      ELSE slNodes[x].links[i]]]]
        n2 == IF scan.last = <<>> THEN n1
              ELSE ExchangeWithLast(n1, h, scan.last[1], target_links)
    IN  IF head_links = 0
        THEN [status |-> "ok", ret |-> None, nodes |-> n2, head |-> h,
              length |-> slLength + 1]
        ELSE IF target_links > head_links
        THEN [status |-> "ok", ret |-> None,
              nodes |-> Grow(n2, slHead, h, head_links, target_links, g),
              head |-> g, length |-> slLength + 1]
        ELSE [status |-> "ok", ret |-> None, nodes |-> n2, head |-> slHead,
              length |-> slLength + 1]

\* SkipList::insert, with h the handle allocate returns and g the handle grow
\* returns (when they are called): the outcome of the call and the list after
\* it.
InsertEffect(key, value, target_links, h, g) ==
    IF slLength = 0
    THEN [status |-> "ok", ret |-> None,
          nodes |-> [slNodes EXCEPT ![h] = NewNode(key, value, 0)],
          head |-> h, length |-> 1]
    ELSE IF ~IsValid(slNodes, slHead) THEN Abort("ub", Undefined)
    ELSE
        LET head_links == slNodes[slHead].number_links IN
        IF key < slNodes[slHead].key
        THEN LET n == Max(target_links, head_links) IN
             [status |-> "ok", ret |-> None,
              nodes |-> [slNodes EXCEPT
                           ![h] = [NewNode(key, value, n) EXCEPT
                                     !.links = [i \in 1..n |-> slHead]]],
              head |-> h, length |-> slLength + 1]
        ELSE IF key = slNodes[slHead].key
        THEN Replace(slNodes, slHead, key, value)
        ELSE
            LET scan == InsertScan(slNodes, key, slHead, head_links - 1,
                                   [i \in 1..head_links |-> <<>>],
                                   IF head_links = 0 THEN <<slHead>> ELSE <<>>)
            IN  CASE scan.kind = "found" -> Replace(slNodes, scan.at, key, value)
                  [] scan.kind = "panic" -> Abort("panic", Panicked)
                  [] scan.kind = "ub" -> Abort("ub", Undefined)
                  [] scan.kind = "hang" -> Abort("hang", Undefined)
                  [] scan.kind = "splice" ->
                        Splice(key, value, target_links, head_links, scan, h, g)

\* SkipList::get_impl, the inner loop: advance as far as possible in `level`.
RECURSIVE GetWalk(_, _, _, _, _)
GetWalk(nodes, key, node, level, fuel) ==
    IF fuel = 0 THEN [kind |-> "hang", node |-> node]
    ELSE IF level >= Len(links(nodes, node)) THEN [kind |-> "break", node |-> node]
    ELSE
        LET next == links(nodes, node)[level + 1] IN
        IF ~IsValid(nodes, next) THEN [kind |-> "ub", node |-> node]
        ELSE IF key > nodes[next].key THEN GetWalk(nodes, key, next, level, fuel - 1)
        ELSE IF key = nodes[next].key THEN [kind |-> "found", node |-> next]
        ELSE [kind |-> "break", node |-> node]

\* SkipList::get_impl, the loop over the levels.
RECURSIVE GetScan(_, _, _, _)
GetScan(nodes, key, node, level) ==
    IF level < 0 THEN None
    ELSE
        LET w == GetWalk(nodes, key, node, level, Fuel) IN
        CASE w.kind = "found" -> Some(nodes[w.node].value)
          [] w.kind = "break" -> GetScan(nodes, key, w.node, level - 1)
          [] OTHER -> Undefined

\* SkipList::get_impl
get_impl(key, length, head, nodes) ==
    IF length = 0 THEN None
    ELSE IF ~IsValid(nodes, head) THEN Undefined
    ELSE IF key < nodes[head].key THEN None
    ELSE IF key = nodes[head].key THEN Some(nodes[head].value)
    ELSE GetScan(nodes, key, head, nodes[head].number_links - 1)

\* SkipList::get
get(key) == get_impl(key, slLength, slHead, slNodes)

\* What a call that resolved a handle designating no block may do: fault, or
\* go on with whatever the memory holds and return anything.
UndefinedInsert == {Undefined, None} \cup {SomeKV(k, v) : k \in Keys, v \in Values}

UndefinedGet == {Undefined, None} \cup {Some(v) : v \in Values}

\* The head as far as the list makes use of it: with no node, `head` is never
\* resolved, whatever clear left in it.
HeldHead == IF slLength = 0 THEN Dangling ELSE slHead

\* SkipList::insert(key, value), the number of links of a new node being
\* `target_links`.
Insert(key, value, target_links) ==
    /\ slStatus = "ok"
    /\ \E h \in AllocChoices(slNodes, HeldHead) :
         \E g \in {slHead} \cup AllocChoices([slNodes EXCEPT ![h].live = TRUE], HeldHead) :
            \E e \in {InsertEffect(key, value, target_links, h, g)} :
            /\ slStatus' = e.status
            /\ slRet' \in IF e.ret = Undefined THEN UndefinedInsert ELSE {e.ret}
            /\ slNodes' = e.nodes
            /\ slHead' = e.head
            /\ slLength' = e.length
    /\ slOp' = [name |-> "insert", key |-> key, value |-> value,
                links |-> IF slLength = 0 THEN 0 ELSE target_links]
    /\ slRef' = [slRef EXCEPT ![key] = <<value>>]

\* SkipList::get(key)
Get(key) ==
    /\ slStatus = "ok"
    /\ \E r \in {get(key)} :
         /\ slStatus' = IF r = Undefined THEN "ub" ELSE "ok"
         /\ slRet' \in IF r = Undefined THEN UndefinedGet ELSE {r}
    /\ slOp' = [name |-> "get", key |-> key, value |-> "", links |-> 0]
    /\ UNCHANGED <<slLength, slHead, slNodes, slRef>>

\* NodeHeader::deallocate: the node is read out of its block and the block is
\* given back to the store with the layout of `number_links` links. Resolving
\* a handle that designates no block is undefined, and so is deallocating a
\* block with a layout other than the one it has.
Deallocate(nodes, handle) ==
    IF ~IsValid(nodes, handle) THEN [status |-> "ub", nodes |-> nodes]
    ELSE IF nodes[handle].number_links # Len(nodes[handle].links)
    THEN [status |-> "ub", nodes |-> nodes]
    ELSE [status |-> "ok", nodes |-> [nodes EXCEPT ![handle] = FreeBlock]]

\* SkipList::clear, the loop and the deallocation that follows it: `remaining`
\* nodes are still to be left through their first link. The key and the value
\* deallocate returns are dropped on the spot, and the drop of the
\* `panic_at`-th pair panics (none does when panic_at is 0).
RECURSIVE ClearLoop(_, _, _, _)
ClearLoop(nodes, handle, remaining, panic_at) ==
    IF ~IsValid(nodes, handle) THEN [status |-> "ub", nodes |-> nodes]
    ELSE IF remaining > 0 /\ nodes[handle].number_links = 0
    THEN [status |-> "ub", nodes |-> nodes]
    ELSE
        LET next_handle == IF remaining > 0 THEN nodes[handle].links[1] ELSE Dangling
            d == Deallocate(nodes, handle)
        IN  IF d.status # "ok" THEN d
            ELSE IF panic_at = 1 THEN [status |-> "panic", nodes |-> d.nodes]
            ELSE IF remaining = 0 THEN d
            ELSE ClearLoop(d.nodes, next_handle, remaining - 1,
                           IF panic_at = 0 THEN 0 ELSE panic_at - 1)

\* Mutant: the length is reset once the nodes are deallocated, so that it is
\* not when a drop panics.
LengthAfterClearLate(status) == IF status = "ok" THEN 0 ELSE slLength

\* `let length = mem::replace(&mut self.length, 0)`, before any deallocation.
LengthAfterClear(status) == 0

\* SkipList::clear, also as called by drop, which a panic brings about: the
\* list is then gone and makes no other call. `head` is left as it is.
Clear(panic_at) ==
    /\ slStatus \in {"ok", "panic"}
    /\ panic_at <= slLength
    /\ slStatus = "panic" => panic_at = 0
    /\ IF slLength = 0
       THEN /\ slRet' = None
            /\ UNCHANGED <<slLength, slNodes, slStatus>>
       ELSE \E e \in {ClearLoop(slNodes, slHead, slLength - 1, panic_at)} :
            /\ slLength' = LengthAfterClear(e.status)
            /\ slNodes' = e.nodes
            /\ slStatus' = IF e.status = "ok" THEN slStatus ELSE e.status
            /\ slRet' = CASE e.status = "ok" -> None
                          [] e.status = "panic" -> Panicked
                          [] OTHER -> Undefined
    /\ slOp' = [name |-> "clear", key |-> 0, value |-> "", links |-> 0]
    /\ slRef' = [k \in Keys |-> <<>>]
    /\ UNCHANGED slHead

\* SkipList::with_storage
InitSkipList ==
    /\ slLength = 0
    /\ slHead = Dangling
    /\ slNodes = [h \in Handles |-> FreeBlock]
    /\ slStatus = "ok"
    /\ slOp = [name |-> "new", key |-> 0, value |-> "", links |-> 0]
    /\ slRet = None
    /\ slRef = [k \in Keys |-> <<>>]

\* ------------------------------------------------------------------------
\* Stores: InlineBumpStore, StackBumpStore, InlineSingleStore, and the
\* dangling handle of the allocator adapter
\* ------------------------------------------------------------------------

\* The size of `T`, the type the block of memory is sized and aligned as, the
\* number of blocks the user holds at a time, and the number of stores that
\* refer to one StackBumpBlock.
MemSize == 4
MaxBlocks == 2
MaxParts == 2

\* core::ptr::Alignment: powers of two.
Alignments == {1, 2, 4}

\* The addresses the block of memory may be placed at: for every alignment,
\* one that is a multiple of it and of no greater alignment.
Placements == {9, 10, 12}

Layout(size, align) == [size |-> size, align |-> align]

\* The layouts the calls are made with, of a positive size: two blocks of the
\* largest size fill the memory.
Layouts == {Layout(s, a) : s \in 1..(MemSize \div 2), a \in Alignments}

Kinds == {"InlineBumpStore", "StackBumpStore", "InlineSingleStore", "Allocator"}

BumpKinds == {"InlineBumpStore", "StackBumpStore"}

\* Result<(Handle, usize), AllocError>, and the failure of a debug_assert!.
AllocError == [tag |-> "Err", handle |-> 0, size |-> 0]
Done(handle, size) == [tag |-> "Ok", handle |-> handle, size |-> size]
AssertFailed == [tag |-> "Panic", handle |-> 0, size |-> 0]

\* What a call leaves: its result, the watermark and the bytes of the block.
Effect(ret, watermark, memory) == [ret |-> ret, watermark |-> watermark, memory |-> memory]

\* `offset.try_into().map_err(|_| AllocError)`: H holds the offsets up to
\* stHandleMax.
from_offset(offset) == IF offset <= stHandleMax THEN Done(offset, 0) ELSE AllocError

\* `(watermark + alignment_mask) & !alignment_mask`, with
\* `alignment_mask = layout.align() - 1`: the low bits are cleared.
Aligned(watermark, align) ==
    LET sum == watermark + (align - 1) IN sum - (sum % align)

\* ptr::copy_nonoverlapping(old, new, size), within the block of memory.
Copy(memory, old, new, size) ==
    [i \in DOMAIN memory |->
        IF new <= i /\ i < new + size /\ old + (i - new) \in DOMAIN memory
        THEN memory[old + (i - new)]
        ELSE memory[i]]

\* ptr::write_bytes(pointer, 0, size)
Zero(memory, offset, size) ==
    [i \in DOMAIN memory |-> IF offset <= i /\ i < offset + size THEN 0 ELSE memory[i]]

\* InlineBumpStore::compute_offset
InlineComputeOffset(watermark, layout) ==
    IF layout.align > stMemAlign THEN AllocError
    ELSE
        LET aligned == Aligned(watermark, layout.align)
            new_watermark == aligned + layout.size
        IN  IF new_watermark > MemSize THEN AllocError
            ELSE IF from_offset(aligned) = AllocError THEN AllocError
            ELSE IF from_offset(new_watermark) = AllocError THEN AllocError
            ELSE Done(aligned, new_watermark)

\* StackBumpStore::compute_offset; `size` of the result is the new watermark.
StackComputeOffset(watermark, layout) ==
    LET aligned == Aligned(watermark, layout.align)
        new_watermark == aligned + layout.size
    IN  IF new_watermark > MemSize THEN AllocError
        ELSE IF from_offset(aligned) = AllocError THEN AllocError
        ELSE Done(aligned, new_watermark)

\* InlineBumpStore::allocate
InlineAllocate(watermark, memory, layout) ==
    LET c == InlineComputeOffset(watermark, layout) IN
    IF c = AllocError THEN Effect(AllocError, watermark, memory)
    ELSE Effect(Done(c.handle, layout.size), c.size, memory)

\* StackBumpStore::allocate
StackAllocate(watermark, memory, layout) ==
    LET c == StackComputeOffset(watermark, layout) IN
    IF c = AllocError THEN Effect(AllocError, watermark, memory)
    ELSE Effect(Done(c.handle, layout.size), c.size, memory)

\* Mutant: the watermark is set before the offset is known to be valid.
InlineGrowByRelocationEager(watermark, memory, handle, old_layout, new_layout) ==
    LET c == InlineComputeOffset(watermark, new_layout) IN
    IF c = AllocError
    THEN Effect(AllocError, Aligned(watermark, new_layout.align), memory)
    ELSE Effect(Done(c.handle, new_layout.size), c.size,
                Copy(memory, handle, c.handle, old_layout.size))

\* InlineBumpStore::grow_by_relocation
InlineGrowByRelocation(watermark, memory, handle, old_layout, new_layout) ==
    LET c == InlineComputeOffset(watermark, new_layout) IN
    IF c = AllocError THEN Effect(AllocError, watermark, memory)
    ELSE Effect(Done(c.handle, new_layout.size), c.size,
                Copy(memory, handle, c.handle, old_layout.size))

\* Mutant: the bytes of the old block are not copied.
StackGrowByRelocationNoCopy(watermark, memory, handle, old_layout, new_layout) ==
    LET c == StackComputeOffset(watermark, new_layout) IN
    IF c = AllocError THEN Effect(AllocError, watermark, memory)
    ELSE Effect(Done(c.handle, new_layout.size), c.size, memory)

\* StackBumpStore::grow_by_relocation
StackGrowByRelocation(watermark, memory, handle, old_layout, new_layout) ==
    LET c == StackComputeOffset(watermark, new_layout) IN
    IF c = AllocError THEN Effect(AllocError, watermark, memory)
    ELSE Effect(Done(c.handle, new_layout.size), c.size,
                Copy(memory, handle, c.handle, old_layout.size))

\* InlineBumpStore::grow: in place if `handle` is the last allocation.
InlineGrow(watermark, memory, handle, old_layout, new_layout) ==
    IF /\ handle + old_layout.size = watermark
       /\ new_layout.align <= old_layout.align
       /\ handle + new_layout.size <= MemSize
    THEN LET new_watermark == from_offset(watermark - old_layout.size + new_layout.size) IN
         IF new_watermark = AllocError THEN Effect(AllocError, watermark, memory)
         ELSE Effect(Done(handle, new_layout.size), new_watermark.handle, memory)
    ELSE InlineGrowByRelocation(watermark, memory, handle, old_layout, new_layout)

\* Mutant: the block is grown in place wherever it is.
StackGrowAnywhere(watermark, memory, handle, old_layout, new_layout) ==
    IF /\ new_layout.align <= old_layout.align
       /\ handle + new_layout.size <= MemSize
    THEN Effect(Done(handle, new_layout.size),
                Max(watermark, handle + new_layout.size), memory)
    ELSE StackGrowByRelocation(watermark, memory, handle, old_layout, new_layout)

\* StackBumpStore::grow: in place if `handle` is the last allocation.
StackGrow(watermark, memory, handle, old_layout, new_layout) ==
    IF /\ handle + old_layout.size = watermark
       /\ new_layout.align <= old_layout.align
       /\ handle + new_layout.size <= MemSize
    THEN Effect(Done(handle, new_layout.size),
                watermark - old_layout.size + new_layout.size, memory)
    ELSE StackGrowByRelocation(watermark, memory, handle, old_layout, new_layout)

\* `debug_assert!(_new_layout.size() >= old_layout.size(), ...)` in the shrink
\* of InlineBumpStore, StackBumpStore and InlineSingleStore.
ShrinkAssertion(old_layout, new_layout) == new_layout.size >= old_layout.size

\* Mutant: the bytes the last block is shrunk by are given back.
BumpShrinkReclaiming(watermark, memory, handle, old_layout, new_layout, debug) ==
    IF handle + old_layout.size = watermark
    THEN Effect(Done(handle, new_layout.size), handle + new_layout.size, memory)
    ELSE Effect(Done(handle, old_layout.size), watermark, memory)

\* InlineBumpStore::shrink and StackBumpStore::shrink, in a build with
\* (`debug`) or without debug assertions.
BumpShrink(watermark, memory, handle, old_layout, new_layout, debug) ==
    IF debug /\ ~ShrinkAssertion(old_layout, new_layout)
    THEN Effect(AssertFailed, watermark, memory)
    ELSE Effect(Done(handle, old_layout.size), watermark, memory)

\* The allocate, and the grow, of the store at hand.
StoreAllocate(watermark, memory, layout) ==
    IF stKind = "InlineBumpStore" THEN InlineAllocate(watermark, memory, layout)
    ELSE StackAllocate(watermark, memory, layout)

StoreGrow(watermark, memory, handle, old_layout, new_layout) ==
    IF stKind = "InlineBumpStore"
    THEN InlineGrow(watermark, memory, handle, old_layout, new_layout)
    ELSE StackGrow(watermark, memory, handle, old_layout, new_layout)

\* Store::grow, the provided method: allocate, copy, deallocate (which the
\* bump stores do nothing for).
DefaultGrow(watermark, memory, handle, old_layout, new_layout) ==
    LET a == StoreAllocate(watermark, memory, new_layout) IN
    IF a.ret = AllocError THEN Effect(AllocError, watermark, memory)
    ELSE Effect(a.ret, a.watermark, Copy(a.memory, handle, a.ret.handle, old_layout.size))

\* The bytes a store may grant beyond the size a layout asks for.
MaxSlack == 1

\* The sizes `allocate` may return for a layout: "the actual size of the
\* block of memory", no less than the size of the layout.
UsableSizes(layout) == layout.size..(layout.size + MaxSlack)

\* Store::allocate of a store that keeps the provided shrink: it takes its
\* blocks as the bump store at hand does, and the block it grants, and the
\* size it returns, is of `usable` bytes.
GenerousAllocate(watermark, memory, layout, usable) ==
    StoreAllocate(watermark, memory, Layout(usable, layout.align))

\* Store::shrink, the provided method: allocate, copy `new_size` bytes, the
\* size allocate returned, deallocate.
DefaultShrink(watermark, memory, handle, old_layout, new_layout, usable) ==
    LET a == GenerousAllocate(watermark, memory, new_layout, usable) IN
    IF a.ret = AllocError THEN Effect(AllocError, watermark, memory)
    ELSE Effect(a.ret, a.watermark, Copy(a.memory, handle, a.ret.handle, a.ret.size))

\* Store::grow_zeroed, the provided method: grow, then zero the new bytes.
GrowZeroed(watermark, memory, handle, old_layout, new_layout) ==
    LET g == StoreGrow(watermark, memory, handle, old_layout, new_layout) IN
    IF g.ret = AllocError THEN Effect(AllocError, g.watermark, g.memory)
    ELSE Effect(g.ret, g.watermark,
                Zero(g.memory, g.ret.handle + old_layout.size, g.ret.size - old_layout.size))

\* InlineSingleStore::validate_layout
validate_layout(layout) == layout.align <= stMemAlign /\ layout.size <= MemSize

\* InlineSingleStore::allocate and InlineSingleStore::grow; the handle is ().
SingleAllocate(watermark, memory, layout) ==
    IF ~validate_layout(layout) THEN Effect(AllocError, watermark, memory)
    ELSE Effect(Done(0, MemSize), watermark, memory)

\* InlineSingleStore::grow_zeroed
SingleGrowZeroed(watermark, memory, old_layout, new_layout) ==
    IF ~validate_layout(new_layout) THEN Effect(AllocError, watermark, memory)
    ELSE Effect(Done(0, MemSize), watermark,
                Zero(memory, old_layout.size, MemSize - old_layout.size))

\* InlineSingleStore::shrink
SingleShrink(watermark, memory, old_layout, new_layout, debug) ==
    IF debug /\ ~ShrinkAssertion(old_layout, new_layout)
    THEN Effect(AssertFailed, watermark, memory)
    ELSE Effect(Done(0, MemSize), watermark, memory)

\* StoreDangling::dangling of each store.
InlineBumpDangling(alignment) ==
    IF alignment > stMemAlign THEN AllocError ELSE from_offset(alignment)

StackBumpDangling(alignment) == from_offset(alignment)

InlineSingleDangling(alignment) ==
    IF alignment <= stMemAlign THEN Done(0, 0) ELSE AllocError

\* The adapter of an Allocator: `ptr::invalid_mut(alignment.as_usize())`, the
\* handle being the pointer.
AllocatorDangling(alignment) == Done(alignment, 0)

dangling(alignment) ==
    CASE stKind = "InlineBumpStore" -> InlineBumpDangling(alignment)
      [] stKind = "StackBumpStore" -> StackBumpDangling(alignment)
      [] stKind = "InlineSingleStore" -> InlineSingleDangling(alignment)
      [] stKind = "Allocator" -> AllocatorDangling(alignment)

\* Store::resolve through a part: the address of the first byte of the block
\* of memory plus the offset; the handle itself for the adapter, and the
\* address of the store for InlineSingleStore.
resolve(part, handle) ==
    CASE stKind \in BumpKinds -> part.memory.address + handle
      [] stKind = "InlineSingleStore" -> part.memory.address
      [] stKind = "Allocator" -> handle

\* A block of memory the user holds: its handle, the layout it has, and the
\* part (the store of a sharing set) it was allocated through.
Block(handle, layout, part) == [handle |-> handle, layout |-> layout, part |-> part]

\* StackBumpBlock::create_store: the store borrows the watermark of the block
\* and records the address and the length of its memory.
create_store == [memory |-> [address |-> stBase, len |-> MemSize]]

\* Mutant: the new store is given the memory that follows the block.
ShareElsewhere(part) ==
    [memory |-> [address |-> part.memory.address + part.memory.len, len |-> part.memory.len]]

\* StoreSharing::share: the same watermark, the same memory.
share(part) == [memory |-> part.memory]

\* StoreSharing::is_sharing_with
is_sharing_with(part, other) == part.memory = other.memory

\* The history of a call made through the part p, and what it leaves in the
\* store.
Call(name, p, e) ==
    /\ stOp' = [name |-> name, part |-> p]
    /\ stRet' = e.ret
    /\ stWatermark' = e.watermark
    /\ stMemory' = e.memory

\* The block the user holds in place of `block` once a call has returned.
Exchange(block, e, layout) ==
    IF e.ret.tag = "Ok"
    THEN (stLive \ {block}) \cup {Block(e.ret.handle, layout, block.part)}
    ELSE stLive

\* allocate(layout), through the part p. An InlineSingleStore has one block:
\* the handles it gave before are no longer valid.
AllocateCall(p, layout) ==
    /\ stKind \in BumpKinds \cup {"InlineSingleStore"}
    /\ Cardinality(stLive) < MaxBlocks
    /\ \E e \in {IF stKind = "InlineSingleStore"
                 THEN SingleAllocate(stWatermark, stMemory, layout)
                 ELSE StoreAllocate(stWatermark, stMemory, layout)} :
         /\ Call("allocate", p, e)
         /\ stLive' = IF e.ret.tag # "Ok" THEN stLive
                      ELSE IF stKind = "InlineSingleStore"
                      THEN {Block(e.ret.handle, layout, p)}
                      ELSE stLive \cup {Block(e.ret.handle, layout, p)}
    /\ UNCHANGED <<stKind, stBase, stMemAlign, stHandleMax, stParts>>

\* grow(handle, old_layout, new_layout), through the part p
GrowCall(p, block, new_layout) ==
    /\ stKind \in BumpKinds \cup {"InlineSingleStore"}
    /\ block \in stLive
    /\ new_layout.size >= block.layout.size
    /\ \E e \in {IF stKind = "InlineSingleStore"
                 THEN SingleAllocate(stWatermark, stMemory, new_layout)
                 ELSE StoreGrow(stWatermark, stMemory, block.handle, block.layout, new_layout)} :
         /\ Call("grow", p, e)
         /\ stLive' = Exchange(block, e, new_layout)
    /\ UNCHANGED <<stKind, stBase, stMemAlign, stHandleMax, stParts>>

\* grow_zeroed(handle, old_layout, new_layout)
GrowZeroedCall(p, block, new_layout) ==
    /\ stKind \in BumpKinds \cup {"InlineSingleStore"}
    /\ block \in stLive
    /\ new_layout.size >= block.layout.size
    /\ \E e \in {IF stKind = "InlineSingleStore"
                 THEN SingleGrowZeroed(stWatermark, stMemory, block.layout, new_layout)
                 ELSE GrowZeroed(stWatermark, stMemory, block.handle, block.layout, new_layout)} :
         /\ Call("grow_zeroed", p, e)
         /\ stLive' = Exchange(block, e, new_layout)
    /\ UNCHANGED <<stKind, stBase, stMemAlign, stHandleMax, stParts>>

\* The provided Store::grow, over the allocate of a bump store.
DefaultGrowCall(p, block, new_layout) ==
    /\ stKind \in BumpKinds
    /\ block \in stLive
    /\ new_layout.size >= block.layout.size
    /\ \E e \in {DefaultGrow(stWatermark, stMemory, block.handle, block.layout, new_layout)} :
         /\ Call("default_grow", p, e)
         /\ stLive' = Exchange(block, e, new_layout)
    /\ UNCHANGED <<stKind, stBase, stMemAlign, stHandleMax, stParts>>

\* shrink(handle, old_layout, new_layout), new_layout being no larger, in a
\* build with or without debug assertions.
ShrinkCall(p, block, new_layout, debug) ==
    /\ stKind \in BumpKinds \cup {"InlineSingleStore"}
    /\ block \in stLive
    /\ new_layout.size <= block.layout.size
    /\ \E e \in {IF stKind = "InlineSingleStore"
                 THEN SingleShrink(stWatermark, stMemory, block.layout, new_layout, debug)
                 ELSE BumpShrink(stWatermark, stMemory, block.handle, block.layout,
                                 new_layout, debug)} :
         /\ Call("shrink", p, e)
         /\ stLive' = Exchange(block, e, new_layout)
    /\ UNCHANGED <<stKind, stBase, stMemAlign, stHandleMax, stParts>>

\* The provided Store::shrink, over an allocate that takes the blocks as a
\* bump store does and returns `usable` as their size.
DefaultShrinkCall(p, block, new_layout, usable) ==
    /\ stKind \in BumpKinds
    /\ block \in stLive
    /\ new_layout.size <= block.layout.size
    /\ \E e \in {DefaultShrink(stWatermark, stMemory, block.handle, block.layout,
                               new_layout, usable)} :
         /\ Call("default_shrink", p, e)
         /\ stLive' = Exchange(block, e, new_layout)
    /\ UNCHANGED <<stKind, stBase, stMemAlign, stHandleMax, stParts>>

\* deallocate(handle, layout) of a bump store, which does nothing: the user
\* no longer holds the block.
DeallocateCall(p, block) ==
    /\ stKind \in BumpKinds
    /\ block \in stLive
    /\ Call("deallocate", p, Effect(Done(0, 0), stWatermark, stMemory))
    /\ stLive' = stLive \ {block}
    /\ UNCHANGED <<stKind, stBase, stMemAlign, stHandleMax, stParts>>

\* dangling(alignment)
DanglingCall(p, alignment) ==
    /\ Call("dangling", p, Effect(dangling(alignment), stWatermark, stMemory))
    /\ UNCHANGED <<stKind, stBase, stMemAlign, stHandleMax, stParts, stLive>>

\* share(), on a StackBumpStore
Share(p) ==
    /\ stKind = "StackBumpStore"
    /\ Len(stParts) < MaxParts
    /\ stParts' = Append(stParts, share(stParts[p]))
    /\ Call("share", p, Effect(Done(0, 0), stWatermark, stMemory))
    /\ UNCHANGED <<stKind, stBase, stMemAlign, stHandleMax, stLive>>

\* create_store(), once more on the same StackBumpBlock
CreateStore ==
    /\ stKind = "StackBumpStore"
    /\ Len(stParts) < MaxParts
    /\ stParts' = Append(stParts, create_store)
    /\ Call("create_store", 0, Effect(Done(0, 0), stWatermark, stMemory))
    /\ UNCHANGED <<stKind, stBase, stMemAlign, stHandleMax, stLive>>

\* The largest offsets the handle type H may hold: H is too narrow for the
\* block, or wide enough. InlineBumpStore::new refuses an H too narrow.
HandleMaxes ==
    IF stKind = "StackBumpStore" THEN {MemSize - 2, MemSize} ELSE {MemSize}

\* A store on a block of memory of MemSize bytes, with any alignment that
\* divides its size, placed at an address that its alignment allows and that
\* no greater alignment does; the bytes of the block are not initialized: each
\* holds a value of its own.
InitStore ==
    /\ stMemAlign \in {a \in Alignments : MemSize % a = 0}
    /\ stBase \in {b \in Placements : b % stMemAlign = 0 /\ b % (2 * stMemAlign) # 0}
    /\ stHandleMax \in HandleMaxes
    /\ stWatermark = 0
    /\ stParts = <<create_store>>
    /\ stMemory = [i \in 0..(MemSize - 1) |-> i + 1]
    /\ stLive = {}
    /\ stOp = [name |-> "new", part |-> 0]
    /\ stRet = Done(0, 0)

\* The store of the collections: the adapter of the global allocator.
IdleStore == stKind = "Allocator" /\ InitStore /\ stMemAlign = 1

\* ------------------------------------------------------------------------
\* ConcurrentVec
\* ------------------------------------------------------------------------

\* tests::multithreaded: THREADS threads push ELEMENTS values each.
NumThreads == 2
PushesPerThread == 2

Threads == 1..NumThreads

\* The capacities a vector is built with: none, too few, exactly enough.
Capacities == 0..(NumThreads * PushesPerThread)

\* The element thread t passes to its j-th push, `i * ELEMENTS + k`.
Value(t, j) == (t - 1) * PushesPerThread + j

AllValues == {Value(t, j) : t \in Threads, j \in 0..(PushesPerThread - 1)}

\* A slot of the block: uninitialized memory, memory a ptr::write is in the
\* middle of (the write is not atomic), or an element.
Uninit == [st |-> "uninit", val |-> 0]
Partial == [st |-> "partial", val |-> 0]
Element(v) == [st |-> "init", val |-> v]

Pending == [tag |-> "Pending", val |-> 0]
Ok == [tag |-> "Ok", val |-> 0]
Err(v) == [tag |-> "Err", val |-> v]

\* Inner::capacity
capacity == cvCapacity

\* ConcurrentVec::len
len == Abs(cvLength) - 1

\* ConcurrentVec::is_empty
is_empty == len = 0

\* ConcurrentVec::initialized_unchecked: the slots in ..index. A slot outside
\* of the block is memory the vector does not own.
initialized_unchecked(index) ==
    [i \in 1..index |-> IF (i - 1) \in DOMAIN cvSlots THEN cvSlots[i - 1] ELSE Uninit]

\* ConcurrentVec::as_slice
as_slice == initialized_unchecked(len)

\* ConcurrentVec::get_unchecked, for an index below len()
get_unchecked(index) == initialized_unchecked(index + 1)[index + 1]

\* Mutants of the capacity check: off by one, either way.
IsFullEarly(l) == Abs(l) >= capacity

IsFullLate(l) == Abs(l) > capacity + 1

\* `length.unsigned_abs() > self.store.capacity()`
IsFull(l) == Abs(l) > capacity

\* Mutant: the length is incremented when the lock is taken, not when it is
\* released.
LockedIncremented(l) == -(l + 1)

\* The value compare_exchange_weak installs: the slot is taken.
Locked(l) == -l

\* Mutant: a plain store where the code compares and exchanges.
CasAlways(t) == TRUE

\* The compare_exchange_weak succeeds only when `length` still holds the
\* value the thread has seen (and even then it may fail spuriously).
CasMatches(t) == cvLength = local[t]

\* Mutant: the slot index is not brought back to base 0.
SlotIndexOffByOne(l) == l

\* The slot a thread that took the lock at `l` owns.
SlotIndex(l) == l - 1

\* Mutant: the lock is released without counting the new element.
PublishedSame(l) == l

\* The value the Release store publishes.
Published(l) == l + 1

\* Mutant: the element is written into the first slot.
WriteSlotFirst(i, s) == [j \in DOMAIN cvSlots |-> IF j = 0 THEN s ELSE cvSlots[j]]

\* `ptr::write(slot.as_ptr(), element)`, on the slot of index i.
WriteSlot(i, s) == [j \in DOMAIN cvSlots |-> IF j = i THEN s ELSE cvSlots[j]]

\* The history of a call: whether it changed the atomic or the memory.
Track(t) ==
    modified' = [modified EXCEPT
                    ![t] = (pc[t] # "idle" /\ @) \/ cvLength' # cvLength \/ cvSlots' # cvSlots]

Return(t, r) ==
    /\ results' = [results EXCEPT ![t][done[t]] = r]
    /\ done' = [done EXCEPT ![t] = @ + 1]
    /\ pc' = [pc EXCEPT ![t] = "idle"]

\* push is called: `let mut length = self.length.load(Ordering::Acquire)`.
PushLoad(t) ==
    /\ pc[t] = "idle"
    /\ done[t] < PushesPerThread
    /\ local' = [local EXCEPT ![t] = cvLength]
    /\ pc' = [pc EXCEPT ![t] = "loop"]
    /\ startedFull' = [startedFull EXCEPT ![t] = (len = capacity)]
    /\ spun' = [spun EXCEPT ![t] = FALSE]
    /\ UNCHANGED <<cvNewCapacity, cvCapacity, cvLength, cvSlots, done, results>>
    /\ Track(t)

\* Mutant: the capacity is checked once the lock is taken, and the error is
\* returned with the lock held.
PushFullLocking(t) ==
    /\ pc[t] = "loop"
    /\ IsFull(local[t])
    /\ cvLength' = Locked(Abs(cvLength))
    /\ Return(t, Err(Value(t, done[t])))
    /\ UNCHANGED <<cvNewCapacity, cvCapacity, cvSlots, local, startedFull, spun>>
    /\ Track(t)

\* `return Err(element)`
PushFull(t) ==
    /\ pc[t] = "loop"
    /\ IsFull(local[t])
    /\ Return(t, Err(Value(t, done[t])))
    /\ UNCHANGED <<cvNewCapacity, cvCapacity, cvLength, cvSlots, local, startedFull, spun>>
    /\ Track(t)

\* Mutant: the spinning thread does not load `length` again.
PushSpinStale(t) ==
    /\ pc[t] = "loop"
    /\ ~IsFull(local[t])
    /\ local[t] < 0
    /\ spun' = [spun EXCEPT ![t] = startedFull[t]]
    /\ UNCHANGED <<cvNewCapacity, cvCapacity, cvLength, cvSlots, pc, local, done, results,
                   startedFull>>
    /\ Track(t)

\* `if length < 0 { spin_loop(); length = self.length.load(Acquire); continue }`
PushSpin(t) ==
    /\ pc[t] = "loop"
    /\ ~IsFull(local[t])
    /\ local[t] < 0
    /\ local' = [local EXCEPT ![t] = cvLength]
    /\ spun' = [spun EXCEPT ![t] = startedFull[t]]
    /\ UNCHANGED <<cvNewCapacity, cvCapacity, cvLength, cvSlots, pc, done, results, startedFull>>
    /\ Track(t)

\* Mutant: the lock is taken without the capacity check.
PushCasOkUnchecked(t) ==
    /\ pc[t] = "loop"
    /\ local[t] > 0
    /\ CasMatches(t)
    /\ cvLength' = Locked(local[t])
    /\ pc' = [pc EXCEPT ![t] = "write"]
    /\ UNCHANGED <<cvNewCapacity, cvCapacity, cvSlots, local, done, results, startedFull, spun>>
    /\ Track(t)

\* compare_exchange_weak(length, -length) succeeds: `break`.
PushCasOk(t) ==
    /\ pc[t] = "loop"
    /\ ~IsFull(local[t])
    /\ local[t] > 0
    /\ CasMatches(t)
    /\ cvLength' = Locked(local[t])
    /\ pc' = [pc EXCEPT ![t] = "write"]
    /\ UNCHANGED <<cvNewCapacity, cvCapacity, cvSlots, local, done, results, startedFull, spun>>
    /\ Track(t)

\* compare_exchange_weak fails, because `length` changed or spuriously:
\* `spin_loop(); length = prev; continue`.
PushCasFail(t) ==
    /\ pc[t] = "loop"
    /\ ~IsFull(local[t])
    /\ local[t] > 0
    /\ local' = [local EXCEPT ![t] = cvLength]
    /\ spun' = [spun EXCEPT ![t] = startedFull[t]]
    /\ UNCHANGED <<cvNewCapacity, cvCapacity, cvLength, cvSlots, pc, done, results, startedFull>>
    /\ Track(t)

\* ptr::write(slot.as_ptr(), element) begins: the slot is half written.
PushWriteBegin(t) ==
    /\ pc[t] = "write"
    /\ cvSlots' = WriteSlot(SlotIndex(local[t]), Partial)
    /\ pc' = [pc EXCEPT ![t] = "writing"]
    /\ UNCHANGED <<cvNewCapacity, cvCapacity, cvLength, local, done, results, startedFull, spun>>
    /\ Track(t)

\* ptr::write(slot.as_ptr(), element) ends.
PushWriteEnd(t) ==
    /\ pc[t] = "writing"
    /\ cvSlots' = WriteSlot(SlotIndex(local[t]), Element(Value(t, done[t])))
    /\ pc' = [pc EXCEPT ![t] = "store"]
    /\ UNCHANGED <<cvNewCapacity, cvCapacity, cvLength, local, done, results, startedFull, spun>>
    /\ Track(t)

\* `self.length.store(length + 1, Ordering::Release); Ok(())`
PushStore(t) ==
    /\ pc[t] = "store"
    /\ cvLength' = Published(local[t])
    /\ Return(t, Ok)
    /\ UNCHANGED <<cvNewCapacity, cvCapacity, cvSlots, local, startedFull, spun>>
    /\ Track(t)

\* clone has not been called: there is no clone.
NoClone ==
    /\ clPc = "idle"
    /\ clElements = 0
    /\ clIndex = 0
    /\ clCapacity = 0
    /\ clLength = 0
    /\ clSlots = <<>>

\* Clone::clone of an element: an element equal to it; of memory that holds
\* no element, whatever the memory holds.
CloneOf(slot) == slot

\* Mutant: the length of the clone is stored without the offset of one.
CloneLengthRaw(n) == n

\* `elements.len() as isize + 1`
CloneLength(n) == n + 1

\* clone is called: `Self::with_store(self.store.capacity(), ...)`, which only
\* the caller sees, then `self.as_slice()`, which loads `length`.
CloneAsSlice ==
    /\ clPc = "idle"
    /\ clPc' = "write_slice_cloned"
    /\ clCapacity' = capacity
    /\ clLength' = 1
    /\ clSlots' = [i \in 0..(capacity - 1) |-> Uninit]
    /\ clElements' = len
    /\ clIndex' = 0
    /\ UNCHANGED <<cvNewCapacity, cvCapacity, cvLength, cvSlots, pc, local, done, results,
                   startedFull, spun, modified>>

\* MaybeUninit::write_slice_cloned(slots, elements), one element at a time.
\* `slots.get_unchecked_mut(..elements.len())` past the end of the block is
\* memory the clone does not own: nothing of it is kept.
CloneElement ==
    /\ clPc = "write_slice_cloned"
    /\ clIndex < clElements
    /\ clSlots' = [i \in DOMAIN clSlots |->
                      IF i = clIndex THEN CloneOf(as_slice[clIndex + 1]) ELSE clSlots[i]]
    /\ clIndex' = clIndex + 1
    /\ UNCHANGED <<cvNewCapacity, cvCapacity, cvLength, cvSlots, pc, local, done, results,
                   startedFull, spun, modified, clPc, clElements, clCapacity, clLength>>

\* `clone.length.store(elements.len() as isize + 1, Ordering::Release); clone`
CloneStore ==
    /\ clPc = "write_slice_cloned"
    /\ clIndex = clElements
    /\ clLength' = CloneLength(clElements)
    /\ clPc' = "done"
    /\ UNCHANGED <<cvNewCapacity, cvCapacity, cvLength, cvSlots, pc, local, done, results,
                   startedFull, spun, modified, clElements, clIndex, clCapacity, clSlots>>

\* ------------------------------------------------------------------------
\* LinkedList
\* ------------------------------------------------------------------------

\* The number of nodes the stores of the two lists hold between them.
MaxNodes == 3

\* The number of calls made on the two lists.
MaxCalls == 5

\* The handles of the nodes. Stores that are not sharing hand out handles
\* of their own, and no handle of the one is ever given to the other.
NodeHandles == 1..MaxNodes

\* The two lists; each is the `other` of the other.
Lists == {1, 2}
Other(i) == 3 - i

\* A block of the store that holds no node.
FreeNode == [live |-> FALSE, element |-> "", next |-> Dangling, prev |-> Dangling]

\* `Node { element, next, prev }`
Node(element, next, prev) ==
    [live |-> TRUE, element |-> element, next |-> next, prev |-> prev]

\* Whether `handle.resolve(&self.store)` finds a node.
IsNode(nodes, handle) == handle \in NodeHandles /\ nodes[handle].live

\* LinkedList::new_in
new_in == [length |-> 0, head |-> Dangling, tail |-> Dangling]

\* The handles `TypedHandle::new` can be given by the store.
FreeHandles(nodes) == {h \in NodeHandles : ~nodes[h].live}

\* Result<(), _>
Success == <<"Ok">>
Failure == <<"Err">>

\* What is read through a handle that designates no node.
Garbage == "?"

\* A call can be made: no call has ended the program, and fewer than
\* MaxCalls have been made.
CanCall == llStatus = "ok" /\ llCalls < MaxCalls

\* How a call ends: what it returns and what it leaves behind.
ListEffect(name, i, element, at, status, ret, lists, nodes, ref, sharing) ==
    /\ llOp' = [name |-> name, list |-> i, at |-> at]
    /\ llCalls' = llCalls + 1
    /\ llStatus' = status
    /\ llRet' = ret
    /\ llLists' = lists
    /\ llNodes' = nodes
    /\ llRef' = ref
    /\ llSharing' = sharing

\* The call returns.
ListReturn(name, i, element, ret, lists, nodes, ref) ==
    ListEffect(name, i, element, 0, "ok", ret, lists, nodes, ref, llSharing)

\* The call returns and the list is as it was.
ListUnchanged(name, i, element, at, ret) ==
    ListEffect(name, i, element, at, "ok", ret, llLists, llNodes, llRef, llSharing)

\* The call resolves a handle that designates no node.
ListUndefined(name, i, element, at) ==
    ListEffect(name, i, element, at, "ub", Undefined, llLists, llNodes, llRef, llSharing)

\* LinkedList::try_push_front
try_push_front(i, element) ==
    /\ CanCall
    /\ LET list == llLists[i]
           free == FreeHandles(llNodes)
       IN  IF free = {}
           THEN ListUnchanged("try_push_front", i, element, 0, Failure)
           ELSE LET handle == Least(free)
                    nodes == [llNodes EXCEPT ![handle] = Node(element, list.head, Dangling)]
                    pushed == [length |-> list.length + 1,
                               head |-> handle,
                               tail |-> IF list.length = 0 THEN handle ELSE list.tail]
                IN  ListReturn("try_push_front", i, element, Success,
                               [llLists EXCEPT ![i] = pushed], nodes,
                               [llRef EXCEPT ![i] = <<element>> \o @])

\* LinkedList::try_push_back
try_push_back(i, element) ==
    /\ CanCall
    /\ LET list == llLists[i]
           free == FreeHandles(llNodes)
       IN  IF free = {}
           THEN ListUnchanged("try_push_back", i, element, 0, Failure)
           ELSE LET handle == Least(free)
                    allocated == [llNodes EXCEPT ![handle] = Node(element, Dangling, list.tail)]
                IN  IF list.length # 0 /\ ~IsNode(allocated, list.tail)
                    THEN ListUndefined("try_push_back", i, element, 0)
                    ELSE LET nodes == IF list.length # 0
                                      THEN [allocated EXCEPT ![list.tail].next = handle]
                                      ELSE allocated
                             pushed == [length |-> list.length + 1,
                                        head |-> IF list.length # 0 THEN list.head ELSE handle,
                                        tail |-> handle]
                         IN  ListReturn("try_push_back", i, element, Success,
                                        [llLists EXCEPT ![i] = pushed], nodes,
                                        [llRef EXCEPT ![i] = @ \o <<element>>])

\* LinkedList::pop_front
pop_front(i) ==
    /\ CanCall
    /\ LET list == llLists[i]
       IN  IF list.length = 0
           THEN ListUnchanged("pop_front", i, "", 0, None)
           ELSE IF ~IsNode(llNodes, list.head)
           THEN ListUndefined("pop_front", i, "", 0)
           ELSE LET head == llNodes[list.head]
                    popped == [length |-> list.length - 1,
                               head |-> head.next,
                               tail |-> list.tail]
                IN  ListReturn("pop_front", i, "", Some(head.element),
                               [llLists EXCEPT ![i] = popped],
                               [llNodes EXCEPT ![list.head] = FreeNode],
                               [llRef EXCEPT ![i] = IF @ = <<>> THEN @ ELSE Tail(@)])

\* LinkedList::pop_back
pop_back(i) ==
    /\ CanCall
    /\ LET list == llLists[i]
       IN  IF list.length = 0
           THEN ListUnchanged("pop_back", i, "", 0, None)
           ELSE IF ~IsNode(llNodes, list.tail)
           THEN ListUndefined("pop_back", i, "", 0)
           ELSE LET tail == llNodes[list.tail]
                    popped == [length |-> list.length - 1,
                               head |-> list.head,
                               tail |-> tail.prev]
                IN  ListReturn("pop_back", i, "", Some(tail.element),
                               [llLists EXCEPT ![i] = popped],
                               [llNodes EXCEPT ![list.tail] = FreeNode],
                               [llRef EXCEPT ![i] = IF @ = <<>> THEN @
                                                    ELSE SubSeq(@, 1, Len(@) - 1)])

\* LinkedList::try_append, and the append_unchecked it calls, with the other
\* list as `other`.
try_append(i) ==
    /\ CanCall
    /\ LET self == llLists[i]
           other == llLists[Other(i)]
           ref == [llRef EXCEPT ![i] = llRef[i] \o llRef[Other(i)], ![Other(i)] = <<>>]
       IN  IF ~llSharing
           THEN ListUnchanged("try_append", i, "", 0, Failure)
           ELSE IF other.length = 0
           THEN ListReturn("try_append", i, "", Success, llLists, llNodes, ref)
           ELSE IF self.length = 0
           THEN ListReturn("try_append", i, "", Success,
                           [llLists EXCEPT ![i] = other, ![Other(i)] = self], llNodes, ref)
           ELSE IF ~IsNode(llNodes, self.tail)
           THEN ListUndefined("try_append", i, "", 0)
           ELSE LET linked == [llNodes EXCEPT ![self.tail].next = other.head]
                IN  IF ~IsNode(linked, other.head)
                    THEN ListUndefined("try_append", i, "", 0)
                    ELSE ListReturn("try_append", i, "", Success,
                                    [llLists EXCEPT ![i].length = self.length + other.length,
                                                    ![Other(i)].length = 0],
                                    [linked EXCEPT ![other.head].prev = self.tail], ref)

RECURSIVE nth(_, _, _)
\* LinkedList::nth, past its assertion: the handle n links after `handle`,
\* or the dangling handle when one of the handles on the way designates no
\* node.
nth(nodes, handle, n) ==
    IF n = 0 THEN handle
    ELSE IF ~IsNode(nodes, handle) THEN Dangling
    ELSE nth(nodes, nodes[handle].next, n - 1)

\* LinkedList::split_off, that is try_split_off with a store whose share()
\* never fails, in `other = self.split_off(at)` where other is an empty list:
\* the list that is returned takes the place of other.
split_off(i, at) ==
    /\ CanCall
    /\ llLists[Other(i)].length = 0
    /\ LET self == llLists[i]
       IN  IF at = 0
           THEN ListEffect("split_off", i, "", at, "ok", Success,
                           [llLists EXCEPT ![i] = new_in, ![Other(i)] = self], llNodes,
                           [llRef EXCEPT ![i] = <<>>, ![Other(i)] = llRef[i]], TRUE)
           ELSE IF at = self.length
           THEN ListEffect("split_off", i, "", at, "ok", Success,
                           [llLists EXCEPT ![Other(i)] = new_in], llNodes,
                           [llRef EXCEPT ![Other(i)] = <<>>], TRUE)
           ELSE IF ~(at < self.length)
           THEN ListUnchanged("split_off", i, "", at, Panicked)
           ELSE LET new_head == nth(llNodes, self.head, at)
                IN  IF ~IsNode(llNodes, new_head)
                    THEN ListUndefined("split_off", i, "", at)
                    ELSE LET result == [length |-> self.length - at,
                                        head |-> new_head,
                                        tail |-> self.tail]
                             kept == [length |-> at,
                                      head |-> self.head,
                                      tail |-> llNodes[new_head].prev]
                         IN  ListEffect("split_off", i, "", at, "ok", Success,
                                        [llLists EXCEPT ![i] = kept, ![Other(i)] = result],
                                        llNodes,
                                        [llRef EXCEPT
                                            ![i] = SubSeq(llRef[i], 1, at),
                                            ![Other(i)] = SubSeq(llRef[i], at + 1, Len(llRef[i]))],
                                        TRUE)

\* Two empty lists, each made by LinkedList::new_in with a store of its own
\* or with a share of the store of the other.
InitLinkedList ==
    /\ llNodes = [h \in NodeHandles |-> FreeNode]
    /\ llLists = [i \in Lists |-> new_in]
    /\ llSharing \in BOOLEAN
    /\ llStatus = "ok"
    /\ llCalls = 0
    /\ llOp = [name |-> "new", list |-> 1, at |-> 0]
    /\ llRet = None
    /\ llRef = [i \in Lists |-> <<>>]

\* Lists nothing is done with.
IdleList == InitLinkedList /\ llSharing

\* ------------------------------------------------------------------------
\* SkipList: the numbers of links of the nodes
\* ------------------------------------------------------------------------

\* `const MAX_NUMBER_LINKS: usize = 32`, the length of `handles`.
MAX_NUMBER_LINKS == 32

\* The number of bits of a u32, and u8::MAX.
U32Bits == 32
U8Max == 255

\* The nodes a list is given.
MaxInserted == 3

\* A u32 is the function from the positions of its bits, the least
\* significant at 0, to the bits. Sample(ones, fill) has `ones` ones from the
\* least significant bit on, a zero, and above it zeros, ones, or a one at
\* each odd position. The values rand_u32 is taken to return: one for each
\* number of trailing ones, and the even values of each fill.
Fills == {"zeros", "ones", "odd"}

Sample(ones, fill) ==
    [i \in 0..(U32Bits - 1) |->
        IF i < ones THEN 1
        ELSE IF i = ones THEN 0
        ELSE CASE fill = "zeros" -> 0
               [] fill = "ones" -> 1
               [] OTHER -> i % 2]

Samples ==
    {Sample(ones, "zeros") : ones \in 0..U32Bits} \cup {Sample(0, fill) : fill \in Fills}

\* Mutant: the least significant bit is left as it is.
BitOrNothing(r) == r

\* `r | 1`
BitOrOne(r) == [r EXCEPT ![0] = 1]

\* u32::trailing_ones, counted from the bit at i on.
RECURSIVE TrailingOnesFrom(_, _)
TrailingOnesFrom(r, i) ==
    IF i = U32Bits THEN 0
    ELSE IF r[i] = 0 THEN 0
    ELSE 1 + TrailingOnesFrom(r, i + 1)

trailing_ones(r) == TrailingOnesFrom(r, 0)

\* SkipList::determine_number_links, with r the value rand_u32 returns.
determine_number_links(r) == trailing_ones(BitOrOne(r))

\* How an insert ends: the numbers of links it leaves behind.
LinksEffect(r, target_links, status, head_links, new_links, length) ==
    /\ nlRand' = r
    /\ nlTarget' = target_links
    /\ nlStatus' = status
    /\ nlHeadLinks' = head_links
    /\ nlNewLinks' = new_links
    /\ nlLength' = length

\* The insert panics: nothing has been written yet.
LinksPanic(r, target_links) ==
    LinksEffect(r, target_links, "panic", nlHeadLinks, nlNewLinks, nlLength)

\* SkipList::insert, as far as the numbers of links go, with r the value
\* rand_u32 returns and `place` where the key belongs: in front of the head,
\* on a node that holds it, or behind the head. NodeHeader::new and
\* NodeHeader::grow convert the number of links to u8, and the scan behind
\* the head writes `handles[level]` for each level of the head.
InsertLinks(r, place) ==
    /\ nlStatus = "ok"
    /\ IF nlLength = 0
       THEN LinksEffect(nlRand, nlTarget, "ok", 0, 0, 1)
       ELSE LET target_links == determine_number_links(r)
                head_links == nlHeadLinks
            IN  CASE place = "front" ->
                       /\ nlLength < MaxInserted
                       /\ LET n == Max(target_links, head_links)
                          IN  IF n > U8Max
                              THEN LinksPanic(r, target_links)
                              ELSE LinksEffect(r, target_links, "ok", n, n, nlLength + 1)
                  [] place = "equal" ->
                       IF head_links > MAX_NUMBER_LINKS
                       THEN LinksPanic(r, target_links)
                       ELSE LinksEffect(r, target_links, "ok", head_links, 0, nlLength)
                  [] place = "behind" ->
                       /\ nlLength < MaxInserted
                       /\ IF head_links > MAX_NUMBER_LINKS \/ target_links > U8Max
                          THEN LinksPanic(r, target_links)
                          ELSE LinksEffect(r, target_links, "ok",
                                           IF head_links = 0 \/ target_links > head_links
                                           THEN target_links ELSE head_links,
                                           target_links, nlLength + 1)

\* SkipList::with_storage
InitLinks ==
    /\ nlRand = Sample(0, "zeros")
    /\ nlTarget = 0
    /\ nlHeadLinks = 0
    /\ nlNewLinks = 0
    /\ nlLength = 0
    /\ nlStatus = "ok"

\* ------------------------------------------------------------------------
\* StoreVec
\* ------------------------------------------------------------------------

\* The number of elements the largest block of the store holds.
MaxCapacity == 4

\* UniqueArray::round_up_capacity
round_up_capacity(min_capacity) ==
    IF min_capacity <= 1
    THEN min_capacity
    ELSE Least({p \in {2 ^ k : k \in 0..MaxCapacity} : p >= min_capacity})

\* Mutant: the block the store grows the old one into is not given the
\* elements of the old one.
GrownEmpty(slots, old_capacity, new_capacity) ==
    [k \in 0..(new_capacity - 1) |-> Garbage]

\* The block `store.allocate` or `store.grow` returns, of new_capacity
\* slots: the slots of the old block, followed by uninitialized memory.
Grown(slots, old_capacity, new_capacity) ==
    [k \in 0..(new_capacity - 1) |-> IF k < old_capacity THEN slots[k] ELSE Garbage]

\* How a call ends: what it returns and what it leaves behind.
VecEffect(name, value, grew, status, ret, length, vec_capacity, slots, ref) ==
    /\ svOp' = [name |-> name, value |-> value, grew |-> grew]
    /\ svStatus' = status
    /\ svRet' = ret
    /\ svLength' = length
    /\ svCapacity' = vec_capacity
    /\ svSlots' = slots
    /\ svRef' = ref

\* StoreVec::push, with grow_for and UniqueArray::grow_to; the store grants
\* at least the capacity it is asked for, and fails beyond MaxCapacity.
push(value) ==
    /\ svStatus = "ok"
    /\ LET target_capacity == round_up_capacity(svLength + 1)
       IN  IF svLength # svCapacity
           THEN VecEffect("push", value, FALSE, "ok", None, svLength + 1, svCapacity,
                          [svSlots EXCEPT ![svLength] = value], Append(svRef, value))
           ELSE IF target_capacity > MaxCapacity
           THEN VecEffect("push", value, FALSE, "abort", Panicked, svLength, svCapacity,
                          svSlots, svRef)
           ELSE \E granted \in target_capacity..MaxCapacity :
                    VecEffect("push", value, TRUE, "ok", None, svLength + 1, granted,
                              [Grown(svSlots, svCapacity, granted) EXCEPT ![svLength] = value],
                              Append(svRef, value))

\* StoreVec::pop
pop ==
    /\ svStatus = "ok"
    /\ IF svLength = 0
       THEN VecEffect("pop", "", FALSE, "ok", None, svLength, svCapacity, svSlots, svRef)
       ELSE VecEffect("pop", "", FALSE, "ok", Some(svSlots[svLength - 1]), svLength - 1,
                      svCapacity, svSlots, SubSeq(svRef, 1, Len(svRef) - 1))

\* StoreVec::new_in
InitStoreVec ==
    /\ svLength = 0
    /\ svCapacity = 0
    /\ svSlots = <<>>
    /\ svStatus = "ok"
    /\ svOp = [name |-> "new", value |-> "", grew |-> FALSE]
    /\ svRet = None
    /\ svRef = <<>>

\* ConcurrentVec::with_store(capacity, store)
InitCV ==
    /\ cvNewCapacity \in Capacities
    /\ cvCapacity = cvNewCapacity
    /\ cvLength = 1
    /\ cvSlots = [i \in 0..(cvCapacity - 1) |-> Uninit]
    /\ pc = [t \in Threads |-> "idle"]
    /\ local = [t \in Threads |-> 0]
    /\ done = [t \in Threads |-> 0]
    /\ results = [t \in Threads |-> [j \in 0..(PushesPerThread - 1) |-> Pending]]
    /\ startedFull = [t \in Threads |-> FALSE]
    /\ spun = [t \in Threads |-> FALSE]
    /\ modified = [t \in Threads |-> FALSE]
    /\ NoClone
    /\ InitSkipList
    /\ IdleStore
    /\ IdleList
    /\ InitStoreVec
    /\ InitLinks

NextCV ==
    \E t \in Threads :
        \/ PushLoad(t) /\ UNCHANGED <<clVars, slVars, stVars, llVars, svVars, nlVars>>
        \/ PushFull(t) /\ UNCHANGED <<clVars, slVars, stVars, llVars, svVars, nlVars>>
        \/ PushSpin(t) /\ UNCHANGED <<clVars, slVars, stVars, llVars, svVars, nlVars>>
        \/ PushCasOk(t) /\ UNCHANGED <<clVars, slVars, stVars, llVars, svVars, nlVars>>
        \/ PushCasFail(t) /\ UNCHANGED <<clVars, slVars, stVars, llVars, svVars, nlVars>>
        \/ PushWriteBegin(t) /\ UNCHANGED <<clVars, slVars, stVars, llVars, svVars, nlVars>>
        \/ PushWriteEnd(t) /\ UNCHANGED <<clVars, slVars, stVars, llVars, svVars, nlVars>>
        \/ PushStore(t) /\ UNCHANGED <<clVars, slVars, stVars, llVars, svVars, nlVars>>

SpecCV == InitCV /\ [][NextCV]_vars

\* The threads push while one more thread clones the vector.
NextCL ==
    \/ NextCV
    \/ CloneAsSlice /\ UNCHANGED <<slVars, stVars, llVars, svVars, nlVars>>
    \/ CloneElement /\ UNCHANGED <<slVars, stVars, llVars, svVars, nlVars>>
    \/ CloneStore /\ UNCHANGED <<slVars, stVars, llVars, svVars, nlVars>>

SpecCL == InitCV /\ [][NextCL]_vars

\* The threads between their successful compare-exchange and their store.
Owners == {t \in Threads : pc[t] \in {"write", "writing", "store"}}

\* The thread has returned from a push, and this is what the last one returned.
Returned(t) == pc[t] = "idle" /\ done[t] > 0

LastResult(t) == results[t][done[t] - 1]

\* No other thread has called push yet.
SoleUser(t) == \A u \in Threads \ {t} : done[u] = 0 /\ pc[u] = "idle"

AllDone == \A t \in Threads : done[t] = PushesPerThread /\ pc[t] = "idle"

OkCount ==
    Cardinality({<<t, j>> \in Threads \X (0..(PushesPerThread - 1)) : results[t][j] = Ok})

\* C1: at most one thread is between its successful compare-exchange and its
\* releasing store: at most one writer owns the tail slot.
C1_SingleOwner == Cardinality(Owners) <= 1

\* A writer is in the middle of its write while another thread, which has seen
\* the negative length, is in the loop of its own push.
C1_Witness ==
    \E t, u \in Threads :
        /\ t # u
        /\ pc[t] = "writing"
        /\ pc[u] = "loop"
        /\ local[u] < 0

\* C2: every slot below len() is completely written, also while a writer holds
\* the tail slot, so as_slice and get_unchecked only see elements, and the slot
\* a writer owns is not below len().
C2_PrefixInitialized ==
    /\ \A i \in 1..len : as_slice[i].st = "init"
    /\ \A index \in 0..(len - 1) : get_unchecked(index).st = "init"
    /\ \A t \in Owners : SlotIndex(local[t]) >= len

\* The length is negative, a slot is half written, and there are elements.
C2_Witness ==
    /\ cvLength < 0
    /\ len > 0
    /\ \E t \in Threads : pc[t] = "writing" /\ cvSlots[SlotIndex(local[t])] = Partial

\* C3: with capacity THREADS * ELEMENTS no push returns Err, and once every
\* thread is done len() is THREADS * ELEMENTS and every pushed value is in
\* exactly one slot.
C3_NoLossNoDuplication ==
    capacity = NumThreads * PushesPerThread =>
        /\ \A t \in Threads : \A j \in 0..(done[t] - 1) : results[t][j] = Ok
        /\ AllDone =>
            /\ len = NumThreads * PushesPerThread
            /\ \A v \in AllValues :
                  Cardinality({i \in 1..len : as_slice[i] = Element(v)}) = 1

\* Every thread is done, after pushes that raced: the values of the two
\* threads are interleaved in the vector.
C3_Witness ==
    /\ capacity = NumThreads * PushesPerThread
    /\ AllDone
    /\ \E i \in 1..(len - 1) : as_slice[i].val > as_slice[i + 1].val

\* C4: the first `capacity` pushes return Ok and every later one returns Err
\* with the value it was given, len() staying at capacity.
C4_Overflow ==
    /\ \A t \in Threads : \A j \in 0..(done[t] - 1) :
          results[t][j] # Ok =>
              /\ results[t][j] = Err(Value(t, j))
              /\ len = capacity
              /\ OkCount = capacity
    /\ \A t \in Threads :
          SoleUser(t) =>
              /\ \A j \in 0..(done[t] - 1) :
                    results[t][j] = IF j < capacity THEN Ok ELSE Err(Value(t, j))
              /\ pc[t] = "idle" => len = IF done[t] < capacity THEN done[t] ELSE capacity

\* One thread filled a vector and then had a push refused.
C4_Witness ==
    \E t \in Threads :
        /\ SoleUser(t)
        /\ capacity > 0
        /\ Returned(t)
        /\ done[t] = capacity + 1
        /\ LastResult(t) = Err(Value(t, capacity))

\* C5: a push called on a full vector returns Err without having taken a
\* spin_loop branch, and a full vector is never locked.
C5_FullNeverBlocks ==
    /\ \A t \in Threads :
          startedFull[t] =>
              /\ ~spun[t]
              /\ pc[t] \in {"loop", "idle"}
              /\ pc[t] = "idle" => done[t] > 0 /\ LastResult(t).tag = "Err"
    /\ len = capacity => cvLength > 0

\* A push on a full vector has returned while another thread is in its own
\* push.
C5_Witness ==
    \E t, u \in Threads :
        /\ t # u
        /\ capacity > 0
        /\ startedFull[t]
        /\ Returned(t)
        /\ pc[u] = "loop"

\* C6: a push that returned Err made no successful compare-exchange and wrote
\* no slot: it changed neither the length nor the memory.
C6_ErrChangesNothing ==
    \A t \in Threads : Returned(t) /\ LastResult(t).tag = "Err" => ~modified[t]

\* A push returned Err while the pushes of the other thread were changing the
\* vector.
C6_Witness ==
    \E t, u \in Threads :
        /\ t # u
        /\ Returned(t)
        /\ LastResult(t).tag = "Err"
        /\ Returned(u)
        /\ modified[u]

\* C7: after the pushes of a single thread, with enough capacity, as_slice() is
\* the pushed values in push order, len() their number, is_empty() holds iff
\* there are none, and capacity() is the capacity given at construction.
C7_Sequential ==
    /\ capacity = cvNewCapacity
    /\ \A t \in Threads :
          SoleUser(t) /\ pc[t] = "idle" /\ done[t] <= capacity =>
              /\ as_slice = [i \in 1..done[t] |-> Element(Value(t, i - 1))]
              /\ len = done[t]
              /\ len = Cardinality({j \in 0..(PushesPerThread - 1) : results[t][j] = Ok})
              /\ is_empty <=> done[t] = 0

\* One thread has made all its pushes, in a vector with room to spare.
C7_Witness ==
    \E t \in Threads :
        /\ SoleUser(t)
        /\ Returned(t)
        /\ done[t] = PushesPerThread
        /\ capacity > done[t]

\* ------------------------------------------------------------------------
\* SkipList: the specification
\* ------------------------------------------------------------------------

\* A ConcurrentVec nothing is pushed into.
IdleCV ==
    /\ cvNewCapacity = 0
    /\ cvCapacity = 0
    /\ cvLength = 1
    /\ cvSlots = <<>>
    /\ pc = [t \in Threads |-> "idle"]
    /\ local = [t \in Threads |-> 0]
    /\ done = [t \in Threads |-> 0]
    /\ results = [t \in Threads |-> [j \in 0..(PushesPerThread - 1) |-> Pending]]
    /\ startedFull = [t \in Threads |-> FALSE]
    /\ spun = [t \in Threads |-> FALSE]
    /\ modified = [t \in Threads |-> FALSE]
    /\ NoClone

InitSL ==
    InitSkipList /\ IdleCV /\ IdleStore /\ IdleList /\ InitStoreVec /\ InitLinks

NextSL ==
    \/ \E key \in Keys, value \in Values, target_links \in LinkCounts :
          Insert(key, value, target_links) /\ UNCHANGED <<cvVars, stVars, llVars, svVars, nlVars>>
    \/ \E key \in Keys : Get(key) /\ UNCHANGED <<cvVars, stVars, llVars, svVars, nlVars>>
    \/ \E panic_at \in 0..MaxKey : Clear(panic_at) /\ UNCHANGED <<cvVars, stVars, llVars, svVars, nlVars>>

SpecSL == InitSL /\ [][NextSL]_vars

\* What a map holding the last value inserted with each key returns.
RefGet(k) == IF slRef[k] = <<>> THEN None ELSE Some(slRef[k][1])

\* The blocks that hold a node with the key k.
Stored(k) == {h \in Handles : slNodes[h].live /\ slNodes[h].key = k}

Allocated == {h \in Handles : slNodes[h].live}

\* The links of every block.
AllLinks == [h \in Handles |-> slNodes[h].links]

\* C8: every insert completes, and after any sequence of inserts get(k) returns
\* the value of the last insert made with k, and None for a key never inserted.
C8_GetAfterInserts ==
    /\ slOp.name = "insert" => slStatus = "ok"
    /\ slStatus = "ok" => \A k \in Keys : get(k) = RefGet(k)

\* C9: insert(k, v) returns Some of the stored key and value exactly when a node
\* with a key equal to k is in the list, and then changes neither the length,
\* nor the allocated blocks, nor a link; otherwise it returns None and the
\* length grows by 1.
C9_InsertResult ==
    [][slOp'.name = "insert" =>
         IF Stored(slOp'.key) # {}
         THEN /\ \E h \in Stored(slOp'.key) :
                    slRet' = SomeKV(slNodes[h].key, slNodes[h].value)
              /\ slLength' = slLength
              /\ Allocated' = Allocated
              /\ AllLinks' = AllLinks
         ELSE /\ slRet' = None
              /\ slLength' = slLength + 1]_vars

\* C10: every link of every node, at every level below the node's number of
\* links, designates a live node with a strictly greater key.
C10_LinksAscend ==
    \A h \in Allocated :
        \A i \in 1..slNodes[h].number_links :
            /\ IsValid(slNodes, slNodes[h].links[i])
            /\ slNodes[slNodes[h].links[i]].key > slNodes[h].key

\* The nodes without a link.
ZeroLinks == {h \in Allocated : slNodes[h].number_links = 0}

\* The node reached from `handle` by following the level-0 links `steps`
\* times, or Dangling when a node on the way is not live or has no link.
RECURSIVE Level0(_, _, _)
Level0(nodes, handle, steps) ==
    IF ~IsValid(nodes, handle) THEN Dangling
    ELSE IF steps = 0 THEN handle
    ELSE IF nodes[handle].number_links = 0 THEN Dangling
    ELSE Level0(nodes, nodes[handle].links[1], steps - 1)

\* C11: in a non-empty list exactly one node has no link; it holds the
\* greatest key and is the last node of the level-0 chain, `length - 1` links
\* away from the head; every other node has at least one link.
C11_OneLastNode ==
    slLength > 0 =>
        /\ Cardinality(ZeroLinks) = 1
        /\ \A z \in ZeroLinks :
              /\ \A h \in Allocated : slNodes[h].key <= slNodes[z].key
              /\ Level0(slNodes, slHead, slLength - 1) = z
        /\ \A h \in Allocated \ ZeroLinks : slNodes[h].number_links >= 1

\* An insert beyond the last node has traded places with it, in a list whose
\* head has several links.
C11_Witness ==
    /\ slStatus = "ok"
    /\ slLength = MaxKey
    /\ slOp.name = "insert"
    /\ slRet = None
    /\ slOp.key = MaxKey
    /\ \E z \in ZeroLinks : slNodes[z].key = MaxKey
    /\ slNodes[slHead].number_links = MaxLinks

\* What a map holding the last value inserted with each key returns for any
\* key, also one below or above every key ever inserted.
RefGetAny(k) == IF k \in Keys THEN RefGet(k) ELSE None

\* C12: an insert of a second, distinct key into a list of one node, smaller
\* or greater than the first and with any number of links, returns None and
\* leaves a list of length 2 in which get returns the value of each of the two
\* keys and None for every key below, between or above them.
C12_TwoKeys ==
    [][(slLength = 1 /\ slOp'.name = "insert" /\ Stored(slOp'.key) = {}) =>
          /\ slStatus' = "ok"
          /\ slRet' = None
          /\ slLength' = 2
          /\ \A k \in 0..(MaxKey + 1) : get(k)' = RefGetAny(k)'
          /\ Cardinality({k \in Keys : RefGet(k)' # None}) = 2]_vars

\* The greatest key was inserted first and the least key next, with as many
\* links as a node can have, leaving keys between them.
C12_Witness ==
    /\ slStatus = "ok"
    /\ slLength = 2
    /\ slOp.name = "insert"
    /\ slOp.key = 1
    /\ slOp.links = MaxLinks
    /\ slRet = None
    /\ Stored(1) # {}
    /\ Stored(MaxKey) # {}

InitST ==
    stKind \in Kinds /\ InitStore /\ IdleCV /\ InitSkipList /\ IdleList /\ InitStoreVec /\ InitLinks

NextST ==
    \/ \E layout \in Layouts :
          AllocateCall(1, layout) /\ UNCHANGED <<cvVars, slVars, llVars, svVars, nlVars>>
    \/ \E block \in stLive, new_layout \in Layouts :
          GrowCall(1, block, new_layout) /\ UNCHANGED <<cvVars, slVars, llVars, svVars, nlVars>>
    \/ \E block \in stLive, new_layout \in Layouts :
          GrowZeroedCall(1, block, new_layout) /\ UNCHANGED <<cvVars, slVars, llVars, svVars, nlVars>>
    \/ \E block \in stLive, new_layout \in Layouts :
          DefaultGrowCall(1, block, new_layout) /\ UNCHANGED <<cvVars, slVars, llVars, svVars, nlVars>>
    \/ \E block \in stLive, new_layout \in Layouts, debug \in BOOLEAN :
          ShrinkCall(1, block, new_layout, debug) /\ UNCHANGED <<cvVars, slVars, llVars, svVars, nlVars>>
    \/ \E block \in stLive, new_layout \in Layouts :
          DefaultShrinkCall(1, block, new_layout, new_layout.size)
             /\ UNCHANGED <<cvVars, slVars, llVars, svVars, nlVars>>
    \/ \E alignment \in Alignments :
          DanglingCall(1, alignment) /\ UNCHANGED <<cvVars, slVars, llVars, svVars, nlVars>>

SpecST == InitST /\ [][NextST]_vars

\* One bump store, with the blocks given back to it, and the provided shrink
\* of a store that grants more bytes than it is asked for.
InitSD ==
    /\ stKind \in BumpKinds
    /\ InitStore
    /\ IdleCV
    /\ InitSkipList
    /\ IdleList
    /\ InitStoreVec
    /\ InitLinks

NextSD ==
    \/ \E layout \in Layouts :
          AllocateCall(1, layout) /\ UNCHANGED <<cvVars, slVars, llVars, svVars, nlVars>>
    \/ \E block \in stLive, new_layout \in Layouts :
          GrowCall(1, block, new_layout) /\ UNCHANGED <<cvVars, slVars, llVars, svVars, nlVars>>
    \/ \E block \in stLive, new_layout \in Layouts, debug \in BOOLEAN :
          ShrinkCall(1, block, new_layout, debug) /\ UNCHANGED <<cvVars, slVars, llVars, svVars, nlVars>>
    \/ \E block \in stLive :
          DeallocateCall(1, block) /\ UNCHANGED <<cvVars, slVars, llVars, svVars, nlVars>>
    \/ \E block \in stLive, new_layout \in Layouts :
          \E usable \in UsableSizes(new_layout) :
             DefaultShrinkCall(1, block, new_layout, usable)
                /\ UNCHANGED <<cvVars, slVars, llVars, svVars, nlVars>>

SpecSD == InitSD /\ [][NextSD]_vars

\* The stores of one StackBumpBlock.
InitSH ==
    /\ stKind = "StackBumpStore"
    /\ InitStore
    /\ IdleCV
    /\ InitSkipList
    /\ IdleList
    /\ InitStoreVec
    /\ InitLinks

NextSH ==
    \/ \E p \in 1..Len(stParts) : Share(p) /\ UNCHANGED <<cvVars, slVars, llVars, svVars, nlVars>>
    \/ CreateStore /\ UNCHANGED <<cvVars, slVars, llVars, svVars, nlVars>>
    \/ \E p \in 1..Len(stParts), layout \in Layouts :
          AllocateCall(p, layout) /\ UNCHANGED <<cvVars, slVars, llVars, svVars, nlVars>>
    \/ \E p \in 1..Len(stParts), block \in stLive, new_layout \in Layouts :
          GrowCall(p, block, new_layout) /\ UNCHANGED <<cvVars, slVars, llVars, svVars, nlVars>>

SpecSH == InitSH /\ [][NextSH]_vars

\* ------------------------------------------------------------------------
\* Stores: the properties
\* ------------------------------------------------------------------------

GrowAndShrink == {"grow", "default_grow", "shrink", "default_shrink"}

\* C14: when grow or shrink returns Err - the grow and the shrink of the
\* store, or the provided Store::grow and Store::shrink - the watermark and
\* every byte of the block of memory are as they were before the call, and the
\* user holds the same blocks, with the same handles and layouts.
C14_ErrLeavesStore ==
    [][(stOp'.name \in GrowAndShrink /\ stRet'.tag = "Err")
        => /\ stWatermark' = stWatermark
           /\ stMemory' = stMemory
           /\ stLive' = stLive]_vars

\* A grow of a bump store has failed by relocation, with a block allocated
\* and the watermark at an odd offset.
C14_Witness ==
    /\ stKind = "InlineBumpStore"
    /\ stOp.name = "grow"
    /\ stRet = AllocError
    /\ stLive # {}
    /\ stWatermark % 2 = 1

\* The bytes of a block: `size` bytes of the memory from the offset `handle`.
Bytes(memory, handle, size) == [i \in 0..(size - 1) |-> memory[handle + i]]

\* C15: a grow that succeeds - the grow of the store, in place or by
\* relocation, the provided Store::grow, or grow_zeroed - returns a block
\* whose bytes [0, old.size) are those of the old block before the call, and
\* leaves the bytes of every other block the user holds as they were; after
\* grow_zeroed the bytes [old.size, new.size) of the block are zero.
C15_GrowKeepsBytes ==
    [][(stRet'.tag = "Ok" /\ stOp'.name \in {"grow", "default_grow", "grow_zeroed"})
        => \A p \in 1..Len(stParts), block \in stLive, new_layout \in Layouts :
            (CASE stOp'.name = "grow" -> GrowCall(p, block, new_layout)
               [] stOp'.name = "default_grow" -> DefaultGrowCall(p, block, new_layout)
               [] OTHER -> GrowZeroedCall(p, block, new_layout))
            => /\ Bytes(stMemory', stRet'.handle, block.layout.size)
                    = Bytes(stMemory, block.handle, block.layout.size)
               /\ \A other \in stLive \ {block} :
                    Bytes(stMemory', other.handle, other.layout.size)
                        = Bytes(stMemory, other.handle, other.layout.size)
               /\ stOp'.name = "grow_zeroed"
                    => \A i \in block.layout.size..(new_layout.size - 1) :
                          stMemory'[stRet'.handle + i] = 0]_vars

\* grow_zeroed has relocated the first block behind another one: its first
\* byte is the one the memory began with, the next one is zero.
C15_Witness ==
    /\ stKind = "StackBumpStore"
    /\ stOp.name = "grow_zeroed"
    /\ stRet.tag = "Ok"
    /\ stRet.handle > 0
    /\ Cardinality(stLive) = MaxBlocks
    /\ stMemory[stRet.handle] = stMemory[0]
    /\ stMemory[stRet.handle + 1] = 0

\* C16: an allocate that succeeds on an InlineBumpStore or a StackBumpStore
\* returns a size no less than layout.size and a handle that resolves to an
\* address that is a multiple of layout.align, wherever the block of memory
\* is placed.
C16_AllocateAligned ==
    [][(stKind \in BumpKinds /\ stOp'.name = "allocate" /\ stRet'.tag = "Ok")
        => \A p \in 1..Len(stParts), layout \in Layouts :
            AllocateCall(p, layout)
            => /\ stRet'.size >= layout.size
               /\ resolve(stParts[p], stRet'.handle) % layout.align = 0]_vars

\* C17: in every store - the adapter of an allocator, InlineSingleStore,
\* InlineBumpStore, StackBumpStore - and for every alignment, when
\* dangling(alignment) returns Ok(h) the address resolve(h) is a multiple of
\* alignment.
C17_DanglingAligned ==
    [][(stOp'.name = "dangling" /\ stRet'.tag = "Ok")
        => \A p \in 1..Len(stParts), alignment \in Alignments :
            DanglingCall(p, alignment)
            => resolve(stParts[p], stRet'.handle) % alignment = 0]_vars

\* Two blocks have a byte in common.
Overlap(a, b) ==
    /\ a.handle < b.handle + b.layout.size
    /\ b.handle < a.handle + a.layout.size

\* C18: the stores made by share() and by create_store on the block of a
\* StackBumpStore are in one sharing set: is_sharing_with holds between any
\* two of them, in both directions; the handle of every block resolves to the
\* same address through each of them; and no two blocks the user holds
\* overlap, whichever stores they were allocated through.
C18_OneSharingSet ==
    /\ \A p, q \in 1..Len(stParts) :
        /\ is_sharing_with(stParts[p], stParts[q])
        /\ \A block \in stLive :
              resolve(stParts[p], block.handle) = resolve(stParts[q], block.handle)
    /\ \A a, b \in stLive : a # b => ~Overlap(a, b)
    /\ \A a \in stLive : a.handle + a.layout.size <= stWatermark

\* Two blocks are held, one allocated through the first store and one
\* through the store it shared.
C18_Witness ==
    /\ stOp.name = "grow"
    /\ stRet.tag = "Ok"
    /\ Len(stParts) = MaxParts
    /\ \E a, b \in stLive : a.part = 1 /\ b.part = MaxParts /\ a.handle > b.handle

\* C19: shrink on an InlineBumpStore, a StackBumpStore or an
\* InlineSingleStore, with a block the user holds and a new layout that is no
\* larger, returns Ok with a handle that resolves to the same address, the
\* bytes being untouched, and the assertion inside shrink holds.
C19_ShrinkInPlace ==
    [][stOp'.name = "shrink"
        => \A p \in 1..Len(stParts), block \in stLive, new_layout \in Layouts,
              debug \in BOOLEAN :
            ShrinkCall(p, block, new_layout, debug)
            => /\ ShrinkAssertion(block.layout, new_layout)
               /\ stRet'.tag = "Ok"
               /\ resolve(stParts[p], stRet'.handle) = resolve(stParts[p], block.handle)
               /\ stMemory' = stMemory]_vars

\* ------------------------------------------------------------------------
\* ConcurrentVec::clone: the properties
\* ------------------------------------------------------------------------

\* len() and as_slice() of the clone.
clone_len == Abs(clLength) - 1

clone_as_slice ==
    [i \in 1..clone_len |-> IF (i - 1) \in DOMAIN clSlots THEN clSlots[i - 1] ELSE Uninit]

\* C20: clone leaves the vector it is called on as it is, whatever the other
\* threads push meanwhile; the len() it sees is the len() of the vector at
\* that moment; and it returns a vector of the same capacity, whose len() is
\* the len() it saw, whose length is positive (unlocked), and whose as_slice()
\* is, element by element, the initialized prefix of that length of the
\* vector.
C20_Clone ==
    [][(clPc' # clPc \/ clIndex' # clIndex)
        => /\ cvLength' = cvLength /\ cvSlots' = cvSlots /\ cvCapacity' = cvCapacity
           /\ clPc = "idle" => clElements' = len
           /\ clPc' = "done"
                => /\ clCapacity' = capacity
                   /\ clLength' > 0
                   /\ clone_len' = clElements
                   /\ clone_len' <= len
                   /\ clone_as_slice' = initialized_unchecked(clElements)
                   /\ \A i \in 1..clElements : clone_as_slice'[i].st = "init"]_vars

\* clone has returned a vector with an element, and a push that returned
\* while it ran has made the vector longer than the clone.
C20_Witness ==
    /\ clPc = "done"
    /\ clone_len >= 1
    /\ len > clone_len
    /\ clone_as_slice[1] = as_slice[1]

\* ------------------------------------------------------------------------
\* ConcurrentVec: the atomic length, progress, and the order of the slots
\* ------------------------------------------------------------------------

\* `1 <= |length| <= capacity + 1`
LengthInRange == 1 <= Abs(cvLength) /\ Abs(cvLength) <= capacity + 1

\* C25: the atomic length is 1 at first and 1 <= |length| <= capacity + 1 in
\* every state; a step that changes it takes it from a positive n <= capacity
\* to -n, by the compare-exchange of one pushing thread, or from -n to n + 1,
\* by the store of the thread that made that compare-exchange; len() never
\* decreases and never exceeds the capacity.
C25_LengthSteps ==
    [][/\ LengthInRange /\ LengthInRange'
       /\ (\A t \in Threads : done[t] = 0 /\ pc[t] = "idle") => cvLength = 1
       /\ len <= len' /\ len' <= capacity
       /\ cvLength' # cvLength
            => \/ /\ 0 < cvLength /\ cvLength <= capacity
                  /\ cvLength' = -cvLength
                  /\ \E t \in Threads :
                        /\ pc[t] = "loop" /\ pc'[t] = "write"
                        /\ Owners' = {t}
               \/ /\ cvLength < 0
                  /\ cvLength' = -cvLength + 1
                  /\ \E t \in Threads :
                        /\ Owners = {t} /\ pc[t] = "store" /\ pc'[t] = "idle"
                        /\ local[t] = -cvLength]_vars

\* The last slot of a vector of several slots is locked.
C25_Witness ==
    /\ capacity > 1
    /\ cvLength = -capacity
    /\ Cardinality(Owners) = 1

\* Every step of a thread within push is taken if it stays possible: the
\* compare-exchange is attempted, and succeeds if it stays able to.
FairCV ==
    \A t \in Threads :
        /\ WF_vars(PushFull(t) /\ UNCHANGED <<clVars, slVars, stVars, llVars, svVars, nlVars>>)
        /\ WF_vars(PushSpin(t) /\ UNCHANGED <<clVars, slVars, stVars, llVars, svVars, nlVars>>)
        /\ WF_vars((PushCasOk(t) \/ PushCasFail(t)) /\ UNCHANGED <<clVars, slVars, stVars, llVars, svVars, nlVars>>)
        /\ WF_vars(PushCasOk(t) /\ UNCHANGED <<clVars, slVars, stVars, llVars, svVars, nlVars>>)
        /\ WF_vars(PushWriteBegin(t) /\ UNCHANGED <<clVars, slVars, stVars, llVars, svVars, nlVars>>)
        /\ WF_vars(PushWriteEnd(t) /\ UNCHANGED <<clVars, slVars, stVars, llVars, svVars, nlVars>>)
        /\ WF_vars(PushStore(t) /\ UNCHANGED <<clVars, slVars, stVars, llVars, svVars, nlVars>>)

\* The threads are scheduled fairly, and a compare-exchange that could
\* succeed does not fail for ever.
SpecCVFair == SpecCV /\ FairCV

\* C26: when every thread is scheduled fairly and the compare-exchange does
\* not fail spuriously for ever, every call of push returns, Ok or Err.
C26_PushReturns ==
    \A t \in Threads, j \in 0..(PushesPerThread - 1) :
        (pc[t] # "idle" /\ done[t] = j)
            ~> (done[t] > j /\ results[t][j] # Pending)

\* Both threads have returned from their first push with Ok, and the one
\* whose element is in the second slot had to let the other one go first.
C26_Witness ==
    \E t \in Threads :
        /\ \A u \in Threads : Returned(u) /\ done[u] = 1 /\ LastResult(u) = Ok
        /\ 1 \in DOMAIN cvSlots
        /\ cvSlots[1] = Element(Value(t, 0))

\* Every slot before a slot that has been written to holds an element, and
\* the elements of one thread are in the order of its pushes.
SlotsOrdered ==
    /\ \A i, k \in DOMAIN cvSlots :
          (k < i /\ cvSlots[i].st # "uninit") => cvSlots[k].st = "init"
    /\ \A t \in Threads, j, j2 \in 0..(PushesPerThread - 1), i, k \in DOMAIN cvSlots :
          (j < j2 /\ cvSlots[i] = Element(Value(t, j)) /\ cvSlots[k] = Element(Value(t, j2)))
              => i < k

\* C27: the pushes that succeed are given the slots 0, 1, 2, ... in the
\* order of their compare-exchange: the slot a thread locks, and then writes,
\* is the one of index len() at that moment, a slot that holds an element is
\* never written again, none is skipped, and the elements of one thread are
\* at increasing indices in the order it pushed them.
C27_SlotsInOrder ==
    [][/\ SlotsOrdered /\ SlotsOrdered'
       /\ (cvLength > 0 /\ cvLength' < 0)
            => \E t \in Threads : pc'[t] = "write" /\ SlotIndex(local'[t]) = len
       /\ cvSlots' # cvSlots
            => \E t \in Threads :
                  /\ Owners = {t}
                  /\ SlotIndex(local[t]) = len
                  /\ \A i \in DOMAIN cvSlots :
                        cvSlots'[i] # cvSlots[i]
                            => i = len /\ cvSlots[i].st # "init"]_vars

\* The vector is full of the elements of all the pushes, and the first
\* thread's elements are not next to each other.
C27_Witness ==
    /\ AllDone
    /\ capacity = NumThreads * PushesPerThread
    /\ cvLength = capacity + 1
    /\ cvSlots[0] = Element(Value(1, 0))
    /\ cvSlots[capacity - 1] = Element(Value(1, PushesPerThread - 1))

\* ------------------------------------------------------------------------
\* SkipList: the bounds of the links, their validity, and the length
\* ------------------------------------------------------------------------

\* C28: whatever the inserts and the numbers of links drawn, insert never
\* indexes the links of a node at a level the node does not have: no insert
\* ends by the panic of an index out of bounds.
C28_LinksInBounds == slOp.name = "insert" => slRet # Panicked

\* C29: every link of every node, at every level below the node's number of
\* links, holds the handle of a block that is allocated - not the dangling
\* handle NodeHeader::new writes, not the handle of a block given back - and
\* no call resolves a handle that is not valid.
C29_LinksValid ==
    /\ \A h \in Allocated :
          \A i \in 1..slNodes[h].number_links : IsValid(slNodes, slNodes[h].links[i])
    /\ slStatus # "ub"

\* The number of nodes on the chain of the level-0 links from `handle` to the
\* node without a link; `fuel` bounds the walk.
RECURSIVE ChainLength(_, _, _)
ChainLength(nodes, handle, fuel) ==
    IF ~IsValid(nodes, handle) THEN 0
    ELSE IF nodes[handle].number_links = 0 \/ fuel = 0 THEN 1
    ELSE 1 + ChainLength(nodes, nodes[handle].links[1], fuel - 1)

\* The keys inserted since the list was created or last cleared, once every
\* insert has returned.
KeysInserted == {k \in Keys : slRef[k] # <<>>}

\* C30: len() is the number of distinct keys inserted since the list was
\* created or last cleared, and the number of nodes of the level-0 chain from
\* the head to the node without a link; the head is the handle of a live node
\* that holds the smallest key exactly when len() is positive.
C30_LengthCounts ==
    /\ slStatus = "ok" => slLength = Cardinality(KeysInserted)
    /\ slLength > 0 => slLength = ChainLength(slNodes, slHead, Cardinality(Handles))
    /\ slLength > 0 <=>
          /\ IsValid(slNodes, slHead)
          /\ \A h \in Allocated : slNodes[slHead].key <= slNodes[h].key

\* An insert has replaced the value of the greatest key in a list that holds
\* every key.
C30_Witness ==
    /\ slStatus = "ok"
    /\ slOp.name = "insert"
    /\ slOp.key = MaxKey
    /\ slRet # None
    /\ slLength = MaxKey
    /\ ChainLength(slNodes, slHead, Cardinality(Handles)) = MaxKey

\* ------------------------------------------------------------------------
\* LinkedList: the calls against a double-ended queue
\* ------------------------------------------------------------------------

InitLL ==
    InitLinkedList /\ IdleCV /\ InitSkipList /\ IdleStore /\ InitStoreVec /\ InitLinks

NextLL ==
    \E i \in Lists :
        \/ \E element \in Values :
              try_push_front(i, element) /\ UNCHANGED <<cvVars, slVars, stVars, svVars, nlVars>>
        \/ \E element \in Values :
              try_push_back(i, element) /\ UNCHANGED <<cvVars, slVars, stVars, svVars, nlVars>>
        \/ pop_front(i) /\ UNCHANGED <<cvVars, slVars, stVars, svVars, nlVars>>
        \/ pop_back(i) /\ UNCHANGED <<cvVars, slVars, stVars, svVars, nlVars>>

SpecLL == InitLL /\ [][NextLL]_vars

NextLA ==
    \/ NextLL
    \/ \E i \in Lists : try_append(i) /\ UNCHANGED <<cvVars, slVars, stVars, svVars, nlVars>>
    \/ \E i \in Lists, at \in 0..MaxNodes :
          split_off(i, at) /\ UNCHANGED <<cvVars, slVars, stVars, svVars, nlVars>>

SpecLA == InitLL /\ [][NextLA]_vars

\* LinkedList::len
list_len(i) == llLists[i].length

\* LinkedList::front
front(i) ==
    IF llLists[i].length = 0 THEN None
    ELSE IF ~IsNode(llNodes, llLists[i].head) THEN Undefined
    ELSE Some(llNodes[llLists[i].head].element)

\* LinkedList::back
back(i) ==
    IF llLists[i].length = 0 THEN None
    ELSE IF ~IsNode(llNodes, llLists[i].tail) THEN Undefined
    ELSE Some(llNodes[llLists[i].tail].element)

RECURSIVE IterNext(_, _, _)
\* Iter::next, until it returns None: the elements from the front.
IterNext(nodes, head, length) ==
    IF length = 0 THEN <<>>
    ELSE IF ~IsNode(nodes, head) THEN <<Garbage>>
    ELSE <<nodes[head].element>> \o IterNext(nodes, nodes[head].next, length - 1)

RECURSIVE IterNextBack(_, _, _)
\* Iter::next_back, until it returns None: the elements from the back, the
\* last one it returns first in the sequence.
IterNextBack(nodes, tail, length) ==
    IF length = 0 THEN <<>>
    ELSE IF ~IsNode(nodes, tail) THEN <<Garbage>>
    ELSE IterNextBack(nodes, nodes[tail].prev, length - 1) \o <<nodes[tail].element>>

\* LinkedList::iter, from the front and from the back.
FromFront(i) == IterNext(llNodes, llLists[i].head, llLists[i].length)
FromBack(i) == IterNextBack(llNodes, llLists[i].tail, llLists[i].length)

\* What a double-ended queue of the elements of s returns for its ends.
First(s) == IF s = <<>> THEN None ELSE Some(Head(s))
Final(s) == IF s = <<>> THEN None ELSE Some(s[Len(s)])

\* C21: over the pushes and pops at both ends of a list whose store does not
\* fail, every pop returns what a double-ended queue returns, None when it
\* is empty, len() is the length of the queue, and front() and back() of a
\* list that is not empty are the first and the last element of the queue.
C21_Deque ==
    [][/\ llOp'.name = "pop_front" => llRet' = First(llRef[llOp'.list])
       /\ llOp'.name = "pop_back" => llRet' = Final(llRef[llOp'.list])
       /\ \A i \in Lists :
             /\ list_len(i)' = Len(llRef'[i])
             /\ list_len(i)' > 0 => /\ front(i)' = First(llRef'[i])
                                    /\ back(i)' = Final(llRef'[i])]_vars

\* C22: when try_append returns Ok, self holds its former elements followed
\* by those of other, from the front and from the back, its length is the
\* sum of the two and other is empty; when it returns Err, both lists are as
\* they were.
C22_Append ==
    [][\A self \in Lists, other \in Lists :
          (llOp'.name = "try_append" /\ llOp'.list = self /\ other = Other(self))
              => /\ llRet' \in {Success, Failure}
                 /\ llRet' = Success
                       => /\ FromFront(self)' = FromFront(self) \o FromFront(other)
                          /\ FromBack(self)' = FromFront(self) \o FromFront(other)
                          /\ back(self)' = Final(FromFront(self) \o FromFront(other))
                          /\ list_len(self)' = list_len(self) + list_len(other)
                          /\ list_len(other)' = 0
                 /\ llRet' = Failure
                       => /\ llLists' = llLists
                          /\ llNodes' = llNodes]_vars

\* C23: split_off(at) with at <= len() leaves the first `at` elements in
\* self and returns the others, in their order, each list with the head, the
\* tail and the length of its own nodes; with at > len() it panics.
C23_SplitOff ==
    [][\A self \in Lists, result \in Lists, at \in 0..MaxNodes :
          (llOp'.name = "split_off" /\ llOp'.list = self /\ llOp'.at = at
                /\ result = Other(self))
              => LET elements == FromFront(self)
                 IN  IF at > list_len(self)
                 THEN llRet' = Panicked
                 ELSE /\ llRet' = Success
                      /\ list_len(self)' = at
                      /\ list_len(result)' = Len(elements) - at
                      /\ FromFront(self)' = SubSeq(elements, 1, at)
                      /\ FromBack(self)' = SubSeq(elements, 1, at)
                      /\ FromFront(result)' = SubSeq(elements, at + 1, Len(elements))
                      /\ FromBack(result)' = SubSeq(elements, at + 1, Len(elements))]_vars

\* ------------------------------------------------------------------------
\* StoreVec: the calls against a stack
\* ------------------------------------------------------------------------

InitSV ==
    InitStoreVec /\ IdleCV /\ InitSkipList /\ IdleStore /\ IdleList /\ InitLinks

NextSV ==
    \/ \E value \in Values : push(value) /\ UNCHANGED <<cvVars, slVars, stVars, llVars, nlVars>>
    \/ pop /\ UNCHANGED <<cvVars, slVars, stVars, llVars, nlVars>>

SpecSV == InitSV /\ [][NextSV]_vars

\* StoreVec::as_slice
vec_as_slice == [k \in 1..svLength |-> svSlots[k - 1]]

\* C24: over the pushes and pops of a StoreVec, pop returns the element
\* pushed last among those not popped yet, None when there is none,
\* as_slice() is the elements of the stack in the order they were pushed,
\* and len() <= capacity() in every state.
C24_Stack ==
    [][/\ svLength <= svCapacity /\ svLength' <= svCapacity'
       /\ vec_as_slice = svRef /\ vec_as_slice' = svRef'
       /\ svOp'.name = "pop" => svRet' = Final(svRef)]_vars

\* A pop has returned the third element that was pushed: the two before it
\* are the slice, and the third is still in the memory of its slot.
C24_Witness ==
    /\ svOp.name = "pop"
    /\ svRet = Some("b")
    /\ svLength = 2
    /\ svSlots[2] = "b"
    /\ vec_as_slice = <<"a", "a">>

\* ------------------------------------------------------------------------
\* SkipList: the head, the insert in front of it and beyond the last node
\* ------------------------------------------------------------------------

\* The nodes met from `handle` on by following the links of `level` (base 0),
\* as long as the handle designates a node that has such a link.
RECURSIVE ReachedAt(_, _, _, _)
ReachedAt(nodes, handle, level, fuel) ==
    IF ~IsValid(nodes, handle) \/ fuel = 0 THEN {}
    ELSE IF nodes[handle].number_links <= level THEN {handle}
    ELSE {handle} \cup ReachedAt(nodes, nodes[handle].links[level + 1], level, fuel - 1)

\* C31: in a list that is not empty the head has at least as many links as
\* any other node, and every node is reached from the head along the links of
\* each level it has a link at, the last node, which has none, along the
\* first links.
C31_HeadTallest ==
    slLength > 0 =>
        /\ IsValid(slNodes, slHead)
        /\ \A h \in Allocated :
              /\ slNodes[h].number_links <= slNodes[slHead].number_links
              /\ h \in ReachedAt(slNodes, slHead, 0, Fuel)
              /\ \A level \in 0..(slNodes[h].number_links - 1) :
                    h \in ReachedAt(slNodes, slHead, level, Fuel)

\* The head has as many links as a node inserted after it with more links
\* than the head had, and its last link designates that node.
C31_Witness ==
    /\ slStatus = "ok"
    /\ slOp.name = "insert"
    /\ slOp.links = MaxLinks
    /\ slRet = None
    /\ slLength = 3
    /\ slNodes[slHead].number_links = MaxLinks
    /\ slNodes[slHead].key < slOp.key
    /\ \E h \in Allocated \ {slHead} :
          /\ slNodes[h].number_links = MaxLinks
          /\ slNodes[slHead].links[MaxLinks] = h
          /\ slNodes[h].key = slOp.key

\* C32: an insert with a key below the key of the head makes the new node the
\* head, with the larger of target_links and the number of links of the old
\* head, every one of its links designating the old head; the length grows
\* by one and every node the list had is as it was.
C32_InsertBeforeHead ==
    [][(/\ slOp'.name = "insert"
        /\ slLength > 0
        /\ IsValid(slNodes, slHead)
        /\ slOp'.key < slNodes[slHead].key)
          => LET head_links == slNodes[slHead].number_links
                 n == IF slOp'.links > head_links THEN slOp'.links ELSE head_links
             IN  /\ slStatus' = "ok"
                 /\ slRet' = None
                 /\ slLength' = slLength + 1
                 /\ slHead' # slHead
                 /\ ~IsValid(slNodes, slHead')
                 /\ slNodes'[slHead'] =
                       [live |-> TRUE, key |-> slOp'.key, value |-> slOp'.value,
                        number_links |-> n, links |-> [i \in 1..n |-> slHead]]
                 /\ \A x \in Handles \ {slHead'} : slNodes'[x] = slNodes[x]]_vars

\* A node with one link has been inserted in front of a head with two, which
\* is now the second of three nodes.
C32_Witness ==
    /\ slStatus = "ok"
    /\ slOp.name = "insert"
    /\ slOp.links = 1
    /\ slRet = None
    /\ slLength = 3
    /\ slNodes[slHead].key = slOp.key
    /\ slNodes[slHead].number_links = MaxLinks
    /\ \E old \in Allocated \ {slHead} :
          /\ slNodes[slHead].links = [i \in 1..MaxLinks |-> old]
          /\ slNodes[old].number_links = MaxLinks
          /\ slNodes[old].key > slOp.key

\* C33: an insert with a key above every key of the list returns None with
\* the node without links holding the new key and value; the block allocated
\* for the new node holds the key and the value that node had, every link of
\* it designates that node, and it is the last but one node met from the head
\* along the first links.
C33_InsertBeyondLast ==
    [][(/\ slOp'.name = "insert"
        /\ slLength > 0
        /\ \A h \in Allocated : slNodes[h].key < slOp'.key)
          => /\ slStatus' = "ok"
             /\ slRet' = None
             /\ slLength' = slLength + 1
             /\ \E last \in ZeroLinks, handle \in Handles \ Allocated :
                   /\ slNodes'[last] = [slNodes[last] EXCEPT !.key = slOp'.key,
                                                            !.value = slOp'.value]
                   /\ slNodes'[handle] =
                         [live |-> TRUE, key |-> slNodes[last].key,
                          value |-> slNodes[last].value,
                          number_links |-> slOp'.links,
                          links |-> [i \in 1..slOp'.links |-> last]]
                   /\ Level0(slNodes', slHead', slLength' - 2) = handle
                   /\ Level0(slNodes', slHead', slLength' - 1) = last]_vars

\* ------------------------------------------------------------------------
\* SkipList: the head that is grown
\* ------------------------------------------------------------------------

\* C34: when an insert behind a head of h >= 1 links adds a node of more than
\* h links, the head has target_links links afterwards, in the block `head`
\* designates: its key and value are those it had, each of its first h links
\* is the one it had or, where the new node was spliced in behind the head,
\* the new node, which took over the link; the links h..target_links all
\* designate the new node; and no link of any node designates the block the
\* head was in, which holds no node any more if grow moved the head.
C34_HeadGrown ==
    [][(/\ slOp'.name = "insert"
        /\ slLength > 0
        /\ IsValid(slNodes, slHead)
        /\ slOp'.key > slNodes[slHead].key
        /\ slNodes[slHead].number_links >= 1
        /\ slOp'.links > slNodes[slHead].number_links
        /\ slStatus' = "ok"
        /\ slRet' = None)
          => LET old == slNodes[slHead]
                 h == old.number_links
             IN  /\ IsValid(slNodes', slHead')
                 /\ slHead' # slHead => ~IsValid(slNodes, slHead') /\ ~IsValid(slNodes', slHead)
                 /\ slNodes'[slHead'].key = old.key
                 /\ slNodes'[slHead'].value = old.value
                 /\ slNodes'[slHead'].number_links = slOp'.links
                 /\ DOMAIN slNodes'[slHead'].links = 1..slOp'.links
                 /\ \E handle \in Handles \ (Allocated \cup {slHead'}) :
                       /\ IsValid(slNodes', handle)
                       /\ slNodes'[handle].number_links = slOp'.links
                       /\ \A i \in 1..h :
                             \/ slNodes'[slHead'].links[i] = old.links[i]
                             \/ /\ slNodes'[slHead'].links[i] = handle
                                /\ slNodes'[handle].links[i] = old.links[i]
                       /\ \A i \in (h + 1)..slOp'.links :
                             slNodes'[slHead'].links[i] = handle
                 /\ \A x \in Handles : \A i \in DOMAIN slNodes'[x].links :
                       slNodes'[x].links[i] # slHead
                 /\ \A x \in Handles \ {slHead, slHead'} :
                       slNodes[x].live => slNodes'[x].live]_vars

\* The head of one link has been moved to another block to be grown for the
\* fourth node of the list, which was spliced in behind the second node: the
\* first link of the head is the one it had, the second designates the new
\* node.
C34_Witness ==
    /\ slStatus = "ok"
    /\ slOp.name = "insert"
    /\ slOp.links = MaxLinks
    /\ slRet = None
    /\ slLength = 4
    /\ slNodes[slHead].number_links = MaxLinks
    /\ slNodes[slHead].key < slOp.key
    /\ slNodes[slHead].links[1] # slNodes[slHead].links[MaxLinks]
    /\ slNodes[slNodes[slHead].links[MaxLinks]].key = slOp.key
    /\ slNodes[slNodes[slHead].links[1]].number_links = 1
    /\ \E x \in Handles \ Allocated : x < slHead

\* ------------------------------------------------------------------------
\* SkipList: the numbers of links
\* ------------------------------------------------------------------------

InitNL ==
    InitLinks /\ IdleCV /\ InitSkipList /\ IdleStore /\ IdleList /\ InitStoreVec

NextNL ==
    \/ \E r \in Samples :
          InsertLinks(r, "front") /\ UNCHANGED <<cvVars, slVars, stVars, llVars, svVars>>
    \/ \E r \in Samples :
          InsertLinks(r, "equal") /\ UNCHANGED <<cvVars, slVars, stVars, llVars, svVars>>
    \/ \E r \in Samples :
          InsertLinks(r, "behind") /\ UNCHANGED <<cvVars, slVars, stVars, llVars, svVars>>

SpecNL == InitNL /\ [][NextNL]_vars

\* C35: the number of links an insert into a list that is not empty draws
\* is the number of ones of `r | 1` from the least significant bit on, r
\* being the u32 the generator returned: the bits above the first up to that
\* number are ones and the next one, if there is one, is a zero; it is in
\* 1..=32. No insert panics on `handles[level]` or on the conversion of a
\* number of links to u8, and neither the head nor the node created has more
\* than MAX_NUMBER_LINKS links.
C35_NumberOfLinks ==
    [][nlLength > 0
          => /\ nlTarget' \in 1..MAX_NUMBER_LINKS
             /\ \A i \in 1..(U32Bits - 1) : i < nlTarget' => nlRand'[i] = 1
             /\ nlTarget' < U32Bits => nlRand'[nlTarget'] = 0
             /\ nlStatus' = "ok"
             /\ nlHeadLinks' <= MAX_NUMBER_LINKS
             /\ nlNewLinks' <= MAX_NUMBER_LINKS
             /\ nlHeadLinks' <= U8Max]_vars

\* The generator has returned 0xFFFF_FFFE for the third node: with the least
\* significant bit set it has 32 trailing ones, and the head, which had one
\* link, has been grown to 32.
C35_Witness ==
    /\ nlStatus = "ok"
    /\ nlLength = 3
    /\ nlRand = Sample(0, "ones")
    /\ nlTarget = MAX_NUMBER_LINKS
    /\ nlHeadLinks = MAX_NUMBER_LINKS
    /\ nlNewLinks = MAX_NUMBER_LINKS

\* ------------------------------------------------------------------------
\* Bump stores: the blocks and the watermark; the provided shrink
\* ------------------------------------------------------------------------

\* C36: on an InlineBumpStore or a StackBumpStore, over allocate, grow,
\* shrink and deallocate, every block the user holds lies within the bytes
\* [0, MemSize) of the memory, below the watermark, and no two of them have a
\* byte in common; an allocate or a grow that succeeds returns a block that
\* begins at or beyond the watermark, or, for a grow in place, the block that
\* ended at the watermark.
C36_BlocksApart ==
    [][/\ \A a \in stLive' :
             /\ 0 <= a.handle
             /\ a.handle + a.layout.size <= stWatermark'
             /\ a.handle + a.layout.size <= MemSize
       /\ \A a, b \in stLive' : a # b => ~Overlap(a, b)
       /\ (stOp'.name \in {"allocate", "grow"} /\ stRet'.tag = "Ok")
             => \/ stRet'.handle >= stWatermark
                \/ /\ stOp'.name = "grow"
                   /\ \E block \in stLive :
                         /\ block.handle = stRet'.handle
                         /\ block.handle + block.layout.size = stWatermark]_vars

\* The last of two blocks has been grown in place up to the end of the
\* memory, behind a block that was allocated first.
C36_Witness ==
    /\ stKind \in BumpKinds
    /\ stOp.name = "grow"
    /\ stRet.tag = "Ok"
    /\ stWatermark = MemSize
    /\ \E a, b \in stLive :
          /\ a.handle = 0
          /\ b.handle = stRet.handle
          /\ b.handle = a.handle + a.layout.size
          /\ b.layout.size > 1
          /\ b.handle + b.layout.size = MemSize

\* C37: the watermark of an InlineBumpStore or a StackBumpStore is 0 at
\* first, and no call lowers it or takes it beyond MemSize: deallocate and
\* shrink leave it as it is, and so do an allocate and a grow that fail; the
\* bytes an allocate that succeeds hands out begin at or beyond the watermark,
\* so none of them was handed out before.
C37_WatermarkRises ==
    /\ stWatermark = 0
    /\ [][/\ stWatermark <= stWatermark'
          /\ stWatermark' <= MemSize
          /\ (stOp'.name \in {"deallocate", "shrink"}) => (stWatermark' = stWatermark)
          /\ (stOp'.name \in {"allocate", "grow"} /\ stRet'.tag # "Ok")
                => (stWatermark' = stWatermark)
          /\ (stOp'.name = "allocate" /\ stRet'.tag = "Ok")
                => /\ stRet'.handle >= stWatermark
                   /\ stWatermark' >= stRet'.handle + stRet'.size]_vars

\* Every block has been given back to a store whose watermark is at the end
\* of the memory.
C37_Witness ==
    /\ stKind \in BumpKinds
    /\ stOp.name = "deallocate"
    /\ stLive = {}
    /\ stWatermark = MemSize

\* C38: the provided Store::shrink copies `new_size` bytes, the size allocate
\* returned, which it returns in turn: that is no more than the size of the
\* old layout, and no byte of the new block beyond it is written, also when
\* allocate grants more bytes than the new layout asks for.
C38_ShrinkCopiesOldBlock ==
    [][(stOp'.name = "default_shrink" /\ stRet'.tag = "Ok")
        => \A block \in stLive, new_layout \in Layouts :
              \A usable \in UsableSizes(new_layout) :
                 DefaultShrinkCall(1, block, new_layout, usable)
                 => /\ stRet'.size <= block.layout.size
                    /\ \A i \in block.layout.size..(stRet'.size - 1) :
                          stMemory'[stRet'.handle + i] = stMemory[stRet'.handle + i]]_vars

====
